---- MODULE Spec2Model ----
(* Storage core of study_buddy: the sql.js session (storage/sqlite.ts), the  *)
(* tag subsystem (tags.ts) and the two question-type modules                 *)
(* (single-answer, multi-choice).  Tables are sets of rows; every exported   *)
(* function is one action that runs its statements in source order and       *)
(* stops at the first statement that throws.                                 *)
EXTENDS Integers, Sequences, FiniteSets, TLC

VARIABLES
  dbOpen,       \* the session's `db` is not null
  db,           \* the tables of the live database
  sqliteData,   \* IndexedDB store 'sqliteData', key 'main': {} or {image}
  guidCount,    \* identifiers drawn by generateGUID so far
  last,         \* the call that has settled and whose caller has not resumed
  now,          \* Date.now()
  legacy,       \* localStorage item 'study-buddy-sqlite-db': None or Some(image)
  handleCount,  \* Database objects constructed so far; the latest is the handle
  initDone,     \* an initSQLite call has completed in this page session
  sqlLoaded,    \* the session's `SQL` (the sql.js engine) is not null
  tasks,        \* the calls that run step by step, suspended at their awaits
  requests      \* IndexedDB requests not yet completed, in the order made

vars ==
  <<dbOpen, db, sqliteData, guidCount, last, now, legacy, handleCount, initDone,
    sqlLoaded, tasks, requests>>

(***************************************************************************)
(* Bounds of the model                                                     *)
(***************************************************************************)
\* identifiers drawn by generateGUID in one behaviour of Spec and SpecTags
MaxGuids == 4
\* the same for SpecMultiChoice: a question with two options, then an update
MaxMultiChoiceGuids == 5
\* longest option list passed to the multi-choice module
MaxOptions == 3
\* longest name list passed to setQuestionTags
MaxTagNames == 2
\* question identifiers in use at once
MaxQuestions == 2
\* identifiers drawn in one behaviour of SpecRetag: a question with two options
\* and a tag, then an update
MaxRetagGuids == 6
\* milliseconds the clock advances in one behaviour of SpecSingleAnswer
MaxClock == 1
\* Database objects constructed in one behaviour of SpecSession
MaxHandles == 3
\* calls started in one behaviour of the specifications with overlapping calls
MaxTasks == 3

(***************************************************************************)
(* Values                                                                  *)
(***************************************************************************)
SA == "single_answer"
MC == "multi_choice"
QuestionTypes == {SA, MC}

\* An optional field of a data object: <<>> is undefined, <<v>> is v.
None == <<>>
Some(v) == <<v>>
IsSome(o) == Len(o) > 0
Val(o) == o[1]

\* Strings that get trimmed are sequences of characters.
SP == " "
TagNameInputs == { <<"a">>, <<"a", SP>>, <<"b">>, <<SP>> }
OptionTexts == {"X", "Y"}
QuestionTexts == {"Q1"}
Answers == {"A1"}
\* The number NaN, written -1: no other number of the model is negative.
NaN == 0 - 1
DifficultyInputs == {None, Some(6)}

SeqsUpTo(S, n) == UNION { [1..k -> S] : k \in 0..n }

RECURSIVE TrimStart(_)
TrimStart(s) ==
  IF Len(s) > 0 /\ Head(s) = SP THEN TrimStart(Tail(s)) ELSE s

RECURSIVE TrimEnd(_)
TrimEnd(s) ==
  IF Len(s) > 0 /\ s[Len(s)] = SP THEN TrimEnd(SubSeq(s, 1, Len(s) - 1)) ELSE s

\* String.prototype.trim
Trim(s) == TrimEnd(TrimStart(s))

(***************************************************************************)
(* The relational image: one set of rows per table                         *)
(***************************************************************************)
EmptyDB ==
  [ questions |-> {},
    tags |-> {},
    question_tags |-> {},
    single_answer_questions |-> {},
    single_answer_config |-> {},
    multi_choice_questions |-> {},
    multi_choice_options |-> {} ]

\* sql.js leaves PRAGMA foreign_keys at SQLite's default (off) and the session
\* never switches it on: REFERENCES ... ON DELETE CASCADE is declared in the
\* DDL but not enforced.
ForeignKeysEnforced == FALSE

ErrNotInit == "Database not initialized. Call initSQLite() first."
ErrNoDatabase == "Database not initialized"
ErrTagEmpty == "Tag name cannot be empty"
ErrFewOptions == "At least 2 options are required"
ErrNoCorrect == "At least one option must be marked as correct"
ErrSingleSel == "Single selection mode requires exactly one correct answer"
ErrUnique == "UNIQUE constraint failed"
ErrCheck == "CHECK constraint failed"
ErrForeignKey == "FOREIGN KEY constraint failed"
ValidationErrors == {ErrFewOptions, ErrNoCorrect, ErrSingleSel}

(***************************************************************************)
(* A running call: the live tables, the stored image, the images it has    *)
(* put in the store so far, the identifiers drawn so far, the error thrown *)
(* (if any) and the value produced.                                        *)
(***************************************************************************)
Start ==
  [db |-> db, idb |-> sqliteData, puts |-> <<>>, guid |-> guidCount,
   err |-> "", ret |-> 0]

Throw(c, msg) == IF c.err # "" THEN c ELSE [c EXCEPT !.err = msg]

\* a getDB without its test
GetDB_Unguarded(c) == c

\* getDB(): throws when the session has no database
GetDB(c) == IF c.err = "" /\ ~dbOpen THEN Throw(c, ErrNotInit) ELSE c

\* saveDB(): export the live tables and put them under the 'main' key
SaveDB(c) ==
  IF c.err # "" \/ ~dbOpen THEN c
  ELSE [c EXCEPT !.idb = {c.db}, !.puts = Append(@, c.db)]

\* generateGUID(): a random version-4 identifier.  Two draws are taken to be
\* different identifiers; the n-th draw is written n.
GenerateGUID(c) ==
  IF c.err # "" THEN c ELSE [c EXCEPT !.guid = c.guid + 1, !.ret = c.guid + 1]

(***************************************************************************)
(* Schema: what each INSERT / DELETE does to the tables                    *)
(***************************************************************************)
HasQuestion(d, qid, qtype) ==
  \E q \in d.questions : q.question_id = qid /\ q.question_type = qtype

\* A number bound to a statement parameter: sql.js binds a non-integer with
\* sqlite3_bind_double, and SQLite stores NaN as NULL.  A nullable column
\* holds None (NULL) or Some(v).
BindNumber(v) == IF v = NaN THEN None ELSE Some(v)

\* CHECK(difficulty BETWEEN 1 AND 5): a CHECK fails only when its expression
\* is false; on NULL the expression is NULL and the row is accepted
CheckDifficulty(col) == col = None \/ Val(col) \in 1..5

\* questions: PRIMARY KEY (question_id, question_type),
\*            CHECK(difficulty BETWEEN 1 AND 5)
InsertQuestion(c, qid, qtype, difficulty) ==
  IF c.err # "" THEN c
  ELSE IF ~CheckDifficulty(BindNumber(difficulty)) THEN Throw(c, ErrCheck)
  ELSE IF HasQuestion(c.db, qid, qtype) THEN Throw(c, ErrUnique)
  ELSE [c EXCEPT !.db.questions = @ \cup
          {[question_id |-> qid, question_type |-> qtype,
            difficulty |-> BindNumber(difficulty),
            created_at |-> now, updated_at |-> now]}]

\* tags: tag_id PRIMARY KEY, tag_name UNIQUE
InsertTag(c, tagId, name) ==
  IF c.err # "" THEN c
  ELSE IF \E t \in c.db.tags : t.tag_id = tagId \/ t.tag_name = name
       THEN Throw(c, ErrUnique)
  ELSE [c EXCEPT !.db.tags = @ \cup
          {[tag_id |-> tagId, tag_name |-> name, created_at |-> now]}]

\* question_tags: PRIMARY KEY (question_id, question_type, tag_id)
InsertQuestionTag(c, qid, qtype, tagId, orIgnore) ==
  LET row == [question_id |-> qid, question_type |-> qtype, tag_id |-> tagId] IN
  IF c.err # "" THEN c
  ELSE IF row \in c.db.question_tags
       THEN (IF orIgnore THEN c ELSE Throw(c, ErrUnique))
  ELSE IF ForeignKeysEnforced
          /\ ~(HasQuestion(c.db, qid, qtype) /\ \E t \in c.db.tags : t.tag_id = tagId)
       THEN Throw(c, ErrForeignKey)
  ELSE [c EXCEPT !.db.question_tags = @ \cup {row}]

\* a setQuestionTags that keeps the existing associations
DeleteQuestionTagsOf_Kept(c, qid, qtype) == c

\* DELETE FROM question_tags WHERE question_id = ? AND question_type = ?
DeleteQuestionTagsOf(c, qid, qtype) ==
  IF c.err # "" THEN c
  ELSE [c EXCEPT !.db.question_tags =
          {r \in @ : ~(r.question_id = qid /\ r.question_type = qtype)}]

\* a delete that selects by question_id alone
DeleteQuestionRow_AnyType(c, qid, qtype) ==
  IF c.err # "" THEN c
  ELSE [c EXCEPT !.db.questions = {r \in @ : r.question_id # qid}]

\* DELETE FROM questions WHERE question_id = ? AND question_type = ?
\* The ON DELETE CASCADE clauses of the child tables act only when foreign
\* keys are enforced.
DeleteQuestionRow(c, qid, qtype) ==
  LET keep(T) == {r \in T : ~(r.question_id = qid /\ r.question_type = qtype)}
      hit == HasQuestion(c.db, qid, qtype) /\ ForeignKeysEnforced
  IN
  IF c.err # "" THEN c
  ELSE [c EXCEPT
          !.db.questions = keep(@),
          !.db.question_tags = IF hit THEN keep(@) ELSE @,
          !.db.single_answer_questions = IF hit THEN keep(@) ELSE @,
          !.db.single_answer_config = IF hit THEN keep(@) ELSE @,
          !.db.multi_choice_questions = IF hit THEN keep(@) ELSE @,
          !.db.multi_choice_options = IF hit THEN keep(@) ELSE @]

(***************************************************************************)
(* Tag subsystem (tags.ts)                                                 *)
(***************************************************************************)
TagsNamed(d, name) == {t \in d.tags : t.tag_name = name}

\* a lookup by the name as given, the insert by the trimmed name
GetOrCreateTag_RawLookup(c0, tagName) ==
  LET trimmedName == Trim(tagName)
      c1 == IF trimmedName = <<>> THEN Throw(c0, ErrTagEmpty) ELSE c0
      c2 == GetDB(c1)
      existing == TagsNamed(c2.db, tagName)
      g == GenerateGUID(c2)
      ins == SaveDB(InsertTag(GetDB(g), g.ret, trimmedName))
  IN
  IF c2.err # "" THEN c2
  ELSE IF existing # {} THEN [c2 EXCEPT !.ret = (CHOOSE t \in existing : TRUE).tag_id]
  ELSE [ins EXCEPT !.ret = IF ins.err = "" THEN g.ret ELSE ins.ret]

GetOrCreateTag(c0, tagName) ==
  LET trimmedName == Trim(tagName)
      c1 == IF trimmedName = <<>> THEN Throw(c0, ErrTagEmpty) ELSE c0
      c2 == GetDB(c1)                      \* query(...)
      existing == TagsNamed(c2.db, trimmedName)
      g == GenerateGUID(c2)
      ins == SaveDB(InsertTag(GetDB(g), g.ret, trimmedName))   \* execAndSave
  IN
  IF c2.err # "" THEN c2
  ELSE IF existing # {} THEN [c2 EXCEPT !.ret = (CHOOSE t \in existing : TRUE).tag_id]
  ELSE [ins EXCEPT !.ret = IF ins.err = "" THEN g.ret ELSE ins.ret]

\* getQuestionTags: the tag rows joined to the question's associations
\* (as a set; the ORDER BY tag_name only orders the listing)
GetQuestionTags(d, qid, qtype) ==
  {t \in d.tags :
     \E qt \in d.question_tags :
        qt.tag_id = t.tag_id /\ qt.question_id = qid /\ qt.question_type = qtype}

RECURSIVE SetQuestionTagsLoop(_, _, _, _, _)
SetQuestionTagsLoop(c, qid, qtype, tagNames, i) ==
  IF i > Len(tagNames) \/ c.err # "" THEN c
  ELSE IF Trim(tagNames[i]) = <<>>
       THEN SetQuestionTagsLoop(c, qid, qtype, tagNames, i + 1)
  ELSE LET t == GetOrCreateTag(c, tagNames[i])
           a == InsertQuestionTag(t, qid, qtype, t.ret, FALSE)
       IN SetQuestionTagsLoop(a, qid, qtype, tagNames, i + 1)

SetQuestionTags(c0, qid, qtype, tagNames) ==
  LET c1 == GetDB(c0)
      c2 == DeleteQuestionTagsOf(c1, qid, qtype)
      c3 == SetQuestionTagsLoop(c2, qid, qtype, tagNames, 1)
  IN SaveDB(c3)

AddQuestionTag(c0, qid, qtype, tagName) ==
  LET t == GetOrCreateTag(c0, tagName)
  IN SaveDB(InsertQuestionTag(GetDB(t), qid, qtype, t.ret, TRUE))

\* a removal that also drops the tag row
RemoveQuestionTag_DropsTag(c0, qid, qtype, tagName) ==
  LET c1 == GetDB(c0)
      ids == {t.tag_id : t \in TagsNamed(c1.db, tagName)}
  IN
  IF c1.err # "" THEN c1
  ELSE SaveDB([c1 EXCEPT
                 !.db.question_tags =
                    {r \in @ : ~(r.question_id = qid /\ r.question_type = qtype
                                 /\ r.tag_id \in ids)},
                 !.db.tags = {t \in @ : t.tag_id \notin ids}])

\* DELETE ... AND tag_id = (SELECT tag_id FROM tags WHERE tag_name = ?)
\* The name is compared as given (not trimmed).
RemoveQuestionTag(c0, qid, qtype, tagName) ==
  LET c1 == GetDB(c0)
      ids == {t.tag_id : t \in TagsNamed(c1.db, tagName)}
  IN
  IF c1.err # "" THEN c1
  ELSE SaveDB([c1 EXCEPT !.db.question_tags =
                 {r \in @ : ~(r.question_id = qid /\ r.question_type = qtype
                              /\ r.tag_id \in ids)}])

\* DELETE FROM tags WHERE tag_id NOT IN (SELECT DISTINCT tag_id FROM question_tags)
DeleteUnusedTags(c0) ==
  LET c1 == GetDB(c0)
      used == {r.tag_id : r \in c1.db.question_tags}
  IN
  IF c1.err # "" THEN c1
  ELSE SaveDB([c1 EXCEPT !.db.tags = {t \in @ : t.tag_id \in used}])

(***************************************************************************)
(* Type-specific tables                                                    *)
(***************************************************************************)
Bit(b) == IF b THEN 1 ELSE 0

\* x ? 1 : 0 on an optional boolean (undefined is falsy)
OptBit(o) == IF IsSome(o) /\ Val(o) THEN 1 ELSE 0

\* data.difficulty || 1 (undefined, 0 and NaN are falsy)
DifficultyOr1(o) == IF IsSome(o) /\ Val(o) # 0 /\ Val(o) # NaN THEN Val(o) ELSE 1

HasRow(T, qid, qtype) ==
  \E r \in T : r.question_id = qid /\ r.question_type = qtype

\* a child row needs its parent only when foreign keys are enforced
ParentOK(T, qid, qtype) == ~ForeignKeysEnforced \/ HasRow(T, qid, qtype)

\* single_answer_questions: PRIMARY KEY (question_id, question_type),
\*                          CHECK (question_type = 'single_answer')
InsertSingleAnswerQuestion(c, qid, qtype, text) ==
  IF c.err # "" THEN c
  ELSE IF qtype # SA THEN Throw(c, ErrCheck)
  ELSE IF HasRow(c.db.single_answer_questions, qid, qtype) THEN Throw(c, ErrUnique)
  ELSE IF ~ParentOK(c.db.questions, qid, qtype) THEN Throw(c, ErrForeignKey)
  ELSE [c EXCEPT !.db.single_answer_questions = @ \cup
          {[question_id |-> qid, question_type |-> qtype, question_text |-> text]}]

\* a config insert that is always refused
InsertSingleAnswerConfig_Fails(c, qid, qtype, answer, cs, pm) ==
  Throw(c, "NOT NULL constraint failed")

InsertSingleAnswerConfig(c, qid, qtype, answer, cs, pm) ==
  IF c.err # "" THEN c
  ELSE IF qtype # SA THEN Throw(c, ErrCheck)
  ELSE IF HasRow(c.db.single_answer_config, qid, qtype) THEN Throw(c, ErrUnique)
  ELSE IF ~ParentOK(c.db.questions, qid, qtype) THEN Throw(c, ErrForeignKey)
  ELSE [c EXCEPT !.db.single_answer_config = @ \cup
          {[question_id |-> qid, question_type |-> qtype, correct_answer |-> answer,
            case_sensitive |-> cs, allow_partial_match |-> pm]}]

\* multi_choice_questions: PRIMARY KEY (question_id, question_type),
\*                         CHECK (question_type = 'multi_choice')
InsertMultiChoiceQuestion(c, qid, qtype, text, shuffle, multi) ==
  IF c.err # "" THEN c
  ELSE IF qtype # MC THEN Throw(c, ErrCheck)
  ELSE IF HasRow(c.db.multi_choice_questions, qid, qtype) THEN Throw(c, ErrUnique)
  ELSE IF ~ParentOK(c.db.questions, qid, qtype) THEN Throw(c, ErrForeignKey)
  ELSE [c EXCEPT !.db.multi_choice_questions = @ \cup
          {[question_id |-> qid, question_type |-> qtype, question_text |-> text,
            shuffle_options |-> shuffle, allow_multiple_selection |-> multi]}]

\* an options table without its CHECK
InsertOption_Unchecked(c, optionId, qid, qtype, text, correct, order) ==
  IF c.err # "" THEN c
  ELSE IF \E o \in c.db.multi_choice_options : o.option_id = optionId
       THEN Throw(c, ErrUnique)
  ELSE [c EXCEPT !.db.multi_choice_options = @ \cup
          {[option_id |-> optionId, question_id |-> qid, question_type |-> qtype,
            option_text |-> text, is_correct |-> correct, display_order |-> order]}]

\* multi_choice_options: option_id PRIMARY KEY, CHECK (question_type = 'multi_choice')
InsertOption(c, optionId, qid, qtype, text, correct, order) ==
  IF c.err # "" THEN c
  ELSE IF qtype # MC THEN Throw(c, ErrCheck)
  ELSE IF \E o \in c.db.multi_choice_options : o.option_id = optionId
       THEN Throw(c, ErrUnique)
  ELSE IF ~ParentOK(c.db.multi_choice_questions, qid, qtype) THEN Throw(c, ErrForeignKey)
  ELSE [c EXCEPT !.db.multi_choice_options = @ \cup
          {[option_id |-> optionId, question_id |-> qid, question_type |-> qtype,
            option_text |-> text, is_correct |-> correct, display_order |-> order]}]

\* UPDATE questions SET difficulty = ?, updated_at = ? WHERE ... : the CHECK
\* is evaluated on the rows the WHERE clause selects
UpdateDifficulty(c, qid, qtype, difficulty) ==
  IF c.err # "" THEN c
  ELSE IF HasQuestion(c.db, qid, qtype) /\ ~CheckDifficulty(BindNumber(difficulty))
       THEN Throw(c, ErrCheck)
  ELSE [c EXCEPT !.db.questions =
          {IF q.question_id = qid /\ q.question_type = qtype
             THEN [q EXCEPT !.difficulty = BindNumber(difficulty), !.updated_at = now]
             ELSE q : q \in @}]

\* UPDATE questions SET updated_at = ? WHERE question_id = ? AND question_type = ?
UpdateTimestamp(c, qid, qtype) ==
  IF c.err # "" THEN c
  ELSE [c EXCEPT !.db.questions =
          {IF q.question_id = qid /\ q.question_type = qtype
             THEN [q EXCEPT !.updated_at = now] ELSE q : q \in @}]

\* execAndSave(sql, params) with an INSERT into one of the type tables; the
\* statement names the table and the key of the row (an option row takes its
\* question's id as option_id)
TypeTables ==
  {"single_answer_questions", "single_answer_config",
   "multi_choice_questions", "multi_choice_options"}

TypeCodeOf(table) ==
  IF table \in {"single_answer_questions", "single_answer_config"} THEN SA ELSE MC

Run(c, stmt) ==
  CASE stmt.table = "single_answer_questions" ->
         InsertSingleAnswerQuestion(c, stmt.question_id, stmt.question_type, "Q1")
    [] stmt.table = "single_answer_config" ->
         InsertSingleAnswerConfig(c, stmt.question_id, stmt.question_type, "A1", 0, 0)
    [] stmt.table = "multi_choice_questions" ->
         InsertMultiChoiceQuestion(c, stmt.question_id, stmt.question_type, "Q1", 0, 0)
    [] stmt.table = "multi_choice_options" ->
         InsertOption(c, stmt.question_id, stmt.question_id, stmt.question_type, "X", 0, 0)

ExecAndSave(c0, stmt) == SaveDB(Run(GetDB(c0), stmt))

\* query(sql, params) with a SELECT of every row of one table
Query(c0, table) ==
  LET c == GetDB(c0)
  IN IF c.err # "" THEN c ELSE [c EXCEPT !.ret = c.db[table]]

\* exportDB(): the image of the live tables; throws when the session has no
\* database
ExportDB(c) ==
  IF c.err # "" THEN c
  ELSE IF ~dbOpen THEN Throw(c, ErrNoDatabase)
  ELSE [c EXCEPT !.ret = c.db]

(***************************************************************************)
(* Single-answer module                                                    *)
(***************************************************************************)
SetTagsIfGiven(c, qid, qtype, tags) ==
  IF IsSome(tags) /\ Len(Val(tags)) > 0
    THEN SetQuestionTags(c, qid, qtype, Val(tags)) ELSE c

Returning(c, v) == IF c.err = "" THEN [c EXCEPT !.ret = v] ELSE [c EXCEPT !.ret = 0]

CreateSingleAnswerQuestion(c0, data) ==
  LET g == GenerateGUID(c0)
      questionId == g.ret
      c1 == GetDB(g)
      c2 == InsertQuestion(c1, questionId, SA, DifficultyOr1(data.difficulty))
      c3 == InsertSingleAnswerQuestion(c2, questionId, SA, data.questionText)
      c4 == InsertSingleAnswerConfig(c3, questionId, SA, data.correctAnswer,
                                     OptBit(data.caseSensitive),
                                     OptBit(data.allowPartialMatch))
      c5 == SaveDB(c4)
      c6 == SetTagsIfGiven(c5, questionId, SA, data.tags)
  IN Returning(c6, questionId)

\* an update that writes both flags of the config row on every call
UpdateSingleAnswerQuestion_WritesBothFlags(c0, questionId, data) ==
  LET c1 == GetDB(c0)
      c2 == IF IsSome(data.difficulty)
              THEN UpdateDifficulty(c1, questionId, SA, Val(data.difficulty))
              ELSE UpdateTimestamp(c1, questionId, SA)
      c3 == IF c2.err = "" /\ IsSome(data.questionText)
              THEN [c2 EXCEPT !.db.single_answer_questions =
                     {IF r.question_id = questionId /\ r.question_type = SA
                        THEN [r EXCEPT !.question_text = Val(data.questionText)]
                        ELSE r : r \in @}]
              ELSE c2
      c4 == IF c3.err = ""
              THEN [c3 EXCEPT !.db.single_answer_config =
                     {IF r.question_id = questionId /\ r.question_type = SA
                        THEN [r EXCEPT
                               !.correct_answer =
                                  IF IsSome(data.correctAnswer)
                                    THEN Val(data.correctAnswer) ELSE @,
                               !.case_sensitive = OptBit(data.caseSensitive),
                               !.allow_partial_match = OptBit(data.allowPartialMatch)]
                        ELSE r : r \in @}]
              ELSE c3
      c5 == SaveDB(c4)
      c6 == IF IsSome(data.tags)
              THEN SetQuestionTags(c5, questionId, SA, Val(data.tags)) ELSE c5
  IN Returning(c6, 0)

UpdateSingleAnswerQuestion(c0, questionId, data) ==
  LET c1 == GetDB(c0)
      c2 == IF IsSome(data.difficulty)
              THEN UpdateDifficulty(c1, questionId, SA, Val(data.difficulty))
              ELSE UpdateTimestamp(c1, questionId, SA)
      c3 == IF c2.err = "" /\ IsSome(data.questionText)
              THEN [c2 EXCEPT !.db.single_answer_questions =
                     {IF r.question_id = questionId /\ r.question_type = SA
                        THEN [r EXCEPT !.question_text = Val(data.questionText)]
                        ELSE r : r \in @}]
              ELSE c2
      c4 == IF c3.err = ""
              THEN [c3 EXCEPT !.db.single_answer_config =
                     {IF r.question_id = questionId /\ r.question_type = SA
                        THEN [r EXCEPT
                               !.correct_answer =
                                  IF IsSome(data.correctAnswer)
                                    THEN Val(data.correctAnswer) ELSE @,
                               !.case_sensitive =
                                  IF IsSome(data.caseSensitive)
                                    THEN Bit(Val(data.caseSensitive)) ELSE @,
                               !.allow_partial_match =
                                  IF IsSome(data.allowPartialMatch)
                                    THEN Bit(Val(data.allowPartialMatch)) ELSE @]
                        ELSE r : r \in @}]
              ELSE c3
      c5 == SaveDB(c4)
      c6 == IF IsSome(data.tags)
              THEN SetQuestionTags(c5, questionId, SA, Val(data.tags)) ELSE c5
  IN Returning(c6, 0)

\* the rows of getSingleAnswerQuestion's SELECT: the core row of the id under
\* 'single_answer' joined to its body row and its config row
SingleAnswerRows(d, questionId) ==
  {<<q, b, k>> \in d.questions \X d.single_answer_questions \X d.single_answer_config :
     /\ q.question_id = questionId /\ q.question_type = SA
     /\ b.question_id = q.question_id /\ b.question_type = q.question_type
     /\ k.question_id = q.question_id /\ k.question_type = q.question_type}

SingleAnswerObject(d, questionId, row) ==
  [questionId |-> questionId,
   questionText |-> row[2].question_text,
   correctAnswer |-> row[3].correct_answer,
   caseSensitive |-> row[3].case_sensitive # 0,
   allowPartialMatch |-> row[3].allow_partial_match # 0,
   difficulty |-> row[1].difficulty,
   tags |-> GetQuestionTags(d, questionId, SA)]

\* a getSingleAnswerQuestion without `if (results.length === 0) return null`:
\* reading a property of results[0] (undefined) throws
GetSingleAnswerQuestion_NoEmptyTest(c0, questionId) ==
  LET c == GetDB(c0)
      results == SingleAnswerRows(c.db, questionId)
  IN
  IF c.err # "" THEN c
  ELSE IF results = {} THEN Throw(c, "TypeError")
  ELSE [c EXCEPT !.ret =
          Some(SingleAnswerObject(c.db, questionId, CHOOSE r \in results : TRUE))]

\* getSingleAnswerQuestion: None stands for null
GetSingleAnswerQuestion(c0, questionId) ==
  LET c == GetDB(c0)
      results == SingleAnswerRows(c.db, questionId)
  IN
  IF c.err # "" THEN c
  ELSE IF results = {} THEN [c EXCEPT !.ret = None]
  ELSE [c EXCEPT !.ret =
          Some(SingleAnswerObject(c.db, questionId, CHOOSE r \in results : TRUE))]

DeleteSingleAnswerQuestion(c0, questionId) ==
  Returning(SaveDB(DeleteQuestionRow(GetDB(c0), questionId, SA)), 0)

(***************************************************************************)
(* Multi-choice module                                                     *)
(***************************************************************************)
CorrectCount(options) == Cardinality({i \in 1..Len(options) : options[i].isCorrect})

\* validateOptions without its single-selection rule
ValidateOptions_NoSingleRule(options, allowMultiple) ==
  IF Len(options) < 2 THEN ErrFewOptions
  ELSE IF CorrectCount(options) = 0 THEN ErrNoCorrect
  ELSE ""

\* validateOptions: the message thrown, or "" when the list is accepted
ValidateOptions(options, allowMultiple) ==
  IF Len(options) < 2 THEN ErrFewOptions
  ELSE IF CorrectCount(options) = 0 THEN ErrNoCorrect
  ELSE IF ~allowMultiple /\ CorrectCount(options) # 1 THEN ErrSingleSel
  ELSE ""

\* data.allowMultipleSelection ?? false
OrFalse(o) == IF IsSome(o) THEN Val(o) ELSE FALSE

\* a create/update that does not validate
Validate_Skipped(c, data) == c

Validate(c, data) ==
  LET msg == ValidateOptions(data.options, OrFalse(data.allowMultipleSelection))
  IN IF msg # "" THEN Throw(c, msg) ELSE c

\* options numbered from the end of the array
RECURSIVE InsertOptions_Reversed(_, _, _, _)
InsertOptions_Reversed(c, qid, options, i) ==
  IF i > Len(options) \/ c.err # "" THEN c
  ELSE LET g == GenerateGUID(c)
           n == InsertOption(g, g.ret, qid, MC, options[i].optionText,
                             Bit(options[i].isCorrect), Len(options) - i)
       IN InsertOptions_Reversed(n, qid, options, i + 1)

\* data.options.forEach((option, index) => db.run(INSERT ... generateGUID() ... index))
RECURSIVE InsertOptions(_, _, _, _)
InsertOptions(c, qid, options, i) ==
  IF i > Len(options) \/ c.err # "" THEN c
  ELSE LET g == GenerateGUID(c)
           n == InsertOption(g, g.ret, qid, MC, options[i].optionText,
                             Bit(options[i].isCorrect), i - 1)
       IN InsertOptions(n, qid, options, i + 1)

\* a create that also persists between the body row and the option rows
CreateMultiChoiceQuestion_SavesBeforeOptions(c0, data) ==
  LET v == Validate(c0, data)
      g == GenerateGUID(v)
      questionId == g.ret
      c1 == GetDB(g)
      c2 == InsertQuestion(c1, questionId, MC, DifficultyOr1(data.difficulty))
      c3 == InsertMultiChoiceQuestion(c2, questionId, MC, data.questionText,
                                      OptBit(data.shuffleOptions),
                                      OptBit(data.allowMultipleSelection))
      c4 == InsertOptions(SaveDB(c3), questionId, data.options, 1)
      c5 == SaveDB(c4)
      c6 == SetTagsIfGiven(c5, questionId, MC, data.tags)
  IN Returning(c6, questionId)

CreateMultiChoiceQuestion(c0, data) ==
  LET v == Validate(c0, data)
      g == GenerateGUID(v)
      questionId == g.ret
      c1 == GetDB(g)
      c2 == InsertQuestion(c1, questionId, MC, DifficultyOr1(data.difficulty))
      c3 == InsertMultiChoiceQuestion(c2, questionId, MC, data.questionText,
                                      OptBit(data.shuffleOptions),
                                      OptBit(data.allowMultipleSelection))
      c4 == InsertOptions(c3, questionId, data.options, 1)
      c5 == SaveDB(c4)
      c6 == SetTagsIfGiven(c5, questionId, MC, data.tags)
  IN Returning(c6, questionId)

\* an update that keeps the old option rows
DeleteOptionsOf_Kept(c, qid) == c

\* DELETE FROM multi_choice_options WHERE question_id = ? AND question_type = ?
DeleteOptionsOf(c, qid) ==
  IF c.err # "" THEN c
  ELSE [c EXCEPT !.db.multi_choice_options =
          {o \in @ : ~(o.question_id = qid /\ o.question_type = MC)}]

\* an update that validates after it has replaced the options
UpdateMultiChoiceQuestion_LateValidation(c0, questionId, data) ==
  LET c1 == GetDB(c0)
      c4 == DeleteOptionsOf(c1, questionId)
      c5 == InsertOptions(c4, questionId, data.options, 1)
      c6 == SaveDB(c5)
      v == Validate(c6, data)
      c7 == SetQuestionTags(v, questionId, MC,
                            IF IsSome(data.tags) THEN Val(data.tags) ELSE <<>>)
  IN Returning(c7, 0)

\* an update that, like the single-answer one, leaves the tags when data.tags
\* is omitted
UpdateMultiChoiceQuestion_KeepsTagsWhenOmitted(c0, questionId, data) ==
  LET v == Validate(c0, data)
      c1 == GetDB(v)
      c2 == UpdateDifficulty(c1, questionId, MC, DifficultyOr1(data.difficulty))
      c3 == IF c2.err = ""
              THEN [c2 EXCEPT !.db.multi_choice_questions =
                     {IF r.question_id = questionId /\ r.question_type = MC
                        THEN [r EXCEPT
                               !.question_text = data.questionText,
                               !.shuffle_options = OptBit(data.shuffleOptions),
                               !.allow_multiple_selection =
                                  OptBit(data.allowMultipleSelection)]
                        ELSE r : r \in @}]
              ELSE c2
      c4 == DeleteOptionsOf(c3, questionId)
      c5 == InsertOptions(c4, questionId, data.options, 1)
      c6 == SaveDB(c5)
      c7 == IF IsSome(data.tags)
              THEN SetQuestionTags(c6, questionId, MC, Val(data.tags)) ELSE c6
  IN Returning(c7, 0)

UpdateMultiChoiceQuestion(c0, questionId, data) ==
  LET v == Validate(c0, data)
      c1 == GetDB(v)
      c2 == UpdateDifficulty(c1, questionId, MC, DifficultyOr1(data.difficulty))
      c3 == IF c2.err = ""
              THEN [c2 EXCEPT !.db.multi_choice_questions =
                     {IF r.question_id = questionId /\ r.question_type = MC
                        THEN [r EXCEPT
                               !.question_text = data.questionText,
                               !.shuffle_options = OptBit(data.shuffleOptions),
                               !.allow_multiple_selection =
                                  OptBit(data.allowMultipleSelection)]
                        ELSE r : r \in @}]
              ELSE c2
      c4 == DeleteOptionsOf(c3, questionId)
      c5 == InsertOptions(c4, questionId, data.options, 1)
      c6 == SaveDB(c5)
      c7 == SetQuestionTags(c6, questionId, MC,
                            IF IsSome(data.tags) THEN Val(data.tags) ELSE <<>>)
  IN Returning(c7, 0)

DeleteMultiChoiceQuestion(c0, questionId) ==
  Returning(SaveDB(DeleteQuestionRow(GetDB(c0), questionId, MC)), 0)

OptionsOf(d, qid) ==
  {o \in d.multi_choice_options : o.question_id = qid /\ o.question_type = MC}

\* SELECT ... FROM multi_choice_options WHERE ... ORDER BY display_order
OptionsInOrder(d, qid) ==
  LET S == OptionsOf(d, qid)
  IN CHOOSE f \in [1..Cardinality(S) -> S] :
       /\ \A o \in S : \E i \in 1..Cardinality(S) : f[i] = o
       /\ \A i, j \in 1..Cardinality(S) :
            i < j => f[i].display_order <= f[j].display_order

\* getMultiChoiceQuestion: <<>> stands for null
GetMultiChoiceQuestion(d, qid) ==
  LET core == {q \in d.questions : q.question_id = qid /\ q.question_type = MC}
      body == {b \in d.multi_choice_questions :
                 b.question_id = qid /\ b.question_type = MC}
  IN IF core = {} \/ body = {} THEN <<>>
     ELSE LET q == CHOOSE x \in core : TRUE
              b == CHOOSE x \in body : TRUE
          IN << [questionId |-> qid,
                 questionText |-> b.question_text,
                 shuffleOptions |-> b.shuffle_options # 0,
                 allowMultipleSelection |-> b.allow_multiple_selection # 0,
                 difficulty |-> q.difficulty,
                 options |-> [i \in 1..Cardinality(OptionsOf(d, qid)) |->
                                LET o == OptionsInOrder(d, qid)[i]
                                IN [optionId |-> o.option_id,
                                    optionText |-> o.option_text,
                                    isCorrect |-> o.is_correct # 0,
                                    displayOrder |-> o.display_order]],
                 tags |-> GetQuestionTags(d, qid, MC)] >>

(***************************************************************************)
(* Inputs                                                                  *)
(***************************************************************************)
A == <<"a">>
B == <<"b">>

\* tag-name lists for setQuestionTags
\* every list of plain names, and lists with a name to trim or a blank name
UntrimmedLists ==
  { << <<"a", SP>> >>, << A, <<"a", SP>> >>, << <<SP>> >>, << <<"a", SP>>, <<SP>> >> }
TagLists == SeqsUpTo({A, B}, MaxTagNames) \cup UntrimmedLists
FewTagLists == {<<>>, <<A>>, <<A, B>>}
FewTagNames == {A}

\* the optional tags field of a question's data
TagsInputs == {None, Some(<<A>>)}
BoolInputs == {None, Some(FALSE), Some(TRUE)}

Opt(text, correct) == [optionText |-> text, isCorrect |-> correct]
OptionInputs == {Opt("X", TRUE), Opt("Y", FALSE)}
OptionLists == SeqsUpTo(OptionInputs, MaxOptions)
FewOptionLists == { <<Opt("X", TRUE), Opt("Y", FALSE)>>, <<Opt("Y", FALSE), Opt("Y", FALSE)>> }

SingleAnswerCreateData ==
  [questionText : QuestionTexts, correctAnswer : Answers,
   caseSensitive : {None}, allowPartialMatch : {None},
   tags : TagsInputs, difficulty : DifficultyInputs]

PlainSingleAnswerData ==
  [questionText : QuestionTexts, correctAnswer : Answers,
   caseSensitive : {None}, allowPartialMatch : {None},
   tags : {None}, difficulty : {None}]

SingleAnswerUpdateData ==
  [questionText : {None}, correctAnswer : {None},
   caseSensitive : {None}, allowPartialMatch : {None},
   tags : TagsInputs, difficulty : DifficultyInputs]

\* partial inputs of updateSingleAnswerQuestion: no key, one key, every key
EmptyPartial ==
  [questionText |-> None, correctAnswer |-> None,
   caseSensitive |-> None, allowPartialMatch |-> None,
   tags |-> None, difficulty |-> None]
FullPartial ==
  [questionText |-> Some("Q2"), correctAnswer |-> Some("A2"),
   caseSensitive |-> Some(TRUE), allowPartialMatch |-> Some(TRUE),
   tags |-> Some(<<B>>), difficulty |-> Some(3)]
SingleAnswerPartials ==
  {EmptyPartial, FullPartial}
    \cup {[EmptyPartial EXCEPT !.difficulty = d] : d \in {Some(3), Some(6), Some(NaN)}}
    \cup {[EmptyPartial EXCEPT !.questionText = Some("Q2")],
          [EmptyPartial EXCEPT !.correctAnswer = Some("A2")],
          [EmptyPartial EXCEPT !.caseSensitive = Some(TRUE)],
          [EmptyPartial EXCEPT !.caseSensitive = Some(FALSE)],
          [EmptyPartial EXCEPT !.allowPartialMatch = Some(TRUE)],
          [EmptyPartial EXCEPT !.tags = Some(<<>>)],
          [EmptyPartial EXCEPT !.tags = Some(<<B>>)]}

MultiChoiceData ==
  [questionText : QuestionTexts, options : OptionLists,
   shuffleOptions : {None}, allowMultipleSelection : BoolInputs,
   tags : TagsInputs, difficulty : {None}]

FewMultiChoiceData ==
  [questionText : QuestionTexts, options : FewOptionLists,
   shuffleOptions : {None}, allowMultipleSelection : {None},
   tags : TagsInputs, difficulty : {None}]

\* a valid question with or without a tag, and updates that name, empty or
\* omit the tags
TaggedMultiChoiceData ==
  [questionText : QuestionTexts, options : { <<Opt("X", TRUE), Opt("Y", FALSE)>> },
   shuffleOptions : {None}, allowMultipleSelection : {None},
   tags : TagsInputs, difficulty : {None}]
RetagMultiChoiceData ==
  [questionText : QuestionTexts, options : { <<Opt("X", TRUE), Opt("Y", FALSE)>> },
   shuffleOptions : {None}, allowMultipleSelection : {None},
   tags : {None, Some(<<>>), Some(<<B>>)}, difficulty : {None}]

\* INSERT statements for the type tables, under the two type codes and a code
\* that is no type
InsertStatements ==
  [table : TypeTables, question_id : 1..MaxQuestions,
   question_type : {SA, MC, "essay"}]

\* the statements of a session: the body row of question 1..MaxQuestions,
\* under its own type code and under the other one
SessionStatements ==
  [table : {"single_answer_questions"}, question_id : 1..MaxQuestions,
   question_type : {SA, MC}]

\* the tag lists a session sets on question 1: one name, and the same name
\* twice (the second insert throws after the first was made)
SessionKeys == {<<1, SA>>}
SessionTagLists == {<<A>>, <<A, A>>}

\* the tables a session reads
SessionTables == {"questions", "single_answer_questions"}

\* images at hand: the one an older version left under the legacy key, and a
\* backup file
LegacyImage ==
  [EmptyDB EXCEPT !.multi_choice_questions =
     {[question_id |-> 1, question_type |-> MC, question_text |-> "Q2",
       shuffle_options |-> 0, allow_multiple |-> 0]}]

BackupImage ==
  [EmptyDB EXCEPT !.single_answer_config =
     {[question_id |-> 1, question_type |-> SA, correct_answer |-> "A1",
       case_sensitive |-> 0, allow_partial_match |-> 0]}]

\* identifiers a caller can pass: the question identifiers found in the tables,
\* and one that was never drawn
IdInputs ==
  {0} \cup {r.question_id : r \in db.questions \cup db.question_tags
                                \cup db.single_answer_questions
                                \cup db.multi_choice_questions
                                \cup db.multi_choice_options}

\* (question_id, question_type) keys a caller of the tag functions can pass:
\* the keys found in the tables, and one of a question that never existed
KnownKeys ==
  {<<r.question_id, r.question_type>> :
     r \in db.questions \cup db.question_tags
           \cup db.single_answer_questions \cup db.multi_choice_questions}
KeyInputs == {<<0, SA>>} \cup KnownKeys

(***************************************************************************)
(* Actions: one per exported function                                      *)
(***************************************************************************)
\* a call slot that no call has used yet
IdleTask ==
  [op |-> "", pc |-> "idle", qid |-> 0, qtype |-> "", names |-> <<>>, i |-> 0,
   tagId |-> 0, err |-> "", ret |-> 0, overlap |-> {}]

NoCall == [op |-> "", qid |-> 0, qtype |-> "", args |-> <<>>, err |-> "", ret |-> 0]

\* A call runs to its settled promise in one step (a single page context:
\* nothing else runs in between); `last` holds the settled call until the
\* awaiting caller resumes.  A behaviour draws at most max identifiers; a
\* call that draws none passes the count it started from.
Finish(max, c, op, qid, qtype, args) ==
  /\ last = NoCall
  /\ c.guid <= max
  /\ db' = c.db
  /\ sqliteData' = c.idb
  /\ guidCount' = c.guid
  /\ last' = [op |-> op, qid |-> qid, qtype |-> qtype, args |-> args,
              err |-> c.err, ret |-> c.ret]
  /\ UNCHANGED <<dbOpen, now, legacy, handleCount, initDone, sqlLoaded, tasks, requests>>

\* at most MaxQuestions question identifiers are in use
RoomForQuestion == Cardinality(IdInputs \ {0}) < MaxQuestions

\* The legacy item is the base64 text of an image; atob and charCodeAt turn
\* it back into the bytes.
Base64(image) == <<"base64", image>>
Atob(text) == text[2]

\* an initSQLite without its first line: it opens a database on every call
InitSQLite_Reopens ==
  LET migrated == IF legacy # None THEN {Atob(Val(legacy))} ELSE sqliteData
  IN
  /\ last = NoCall
  /\ handleCount < MaxHandles
  /\ dbOpen' = TRUE
  /\ initDone' = TRUE
  /\ db' = IF migrated # {} THEN CHOOSE i \in migrated : TRUE ELSE EmptyDB
  /\ sqliteData' = migrated
  /\ legacy' = None
  /\ handleCount' = handleCount + 1
  /\ last' = [op |-> "initSQLite", qid |-> 0, qtype |-> "", args |-> <<>>,
              err |-> "", ret |-> handleCount']
  /\ sqlLoaded' = TRUE
  /\ UNCHANGED <<guidCount, now, tasks, requests>>

\* initSQLite: returns the open database; else migrates the legacy item into
\* the store, then opens the stored image, else a new database with the
\* schema applied.  It returns the handle, written as its construction number.
InitSQLite ==
  LET migrated == IF legacy # None THEN {Atob(Val(legacy))} ELSE sqliteData
  IN
  /\ last = NoCall
  /\ dbOpen \/ handleCount < MaxHandles
  /\ dbOpen' = TRUE
  /\ initDone' = TRUE
  /\ db' = IF dbOpen THEN db
           ELSE IF migrated # {} THEN CHOOSE i \in migrated : TRUE
           ELSE EmptyDB
  /\ sqliteData' = IF dbOpen THEN sqliteData ELSE migrated
  /\ legacy' = IF dbOpen THEN legacy ELSE None
  /\ handleCount' = IF dbOpen THEN handleCount ELSE handleCount + 1
  /\ last' = [op |-> "initSQLite", qid |-> 0, qtype |-> "", args |-> <<>>,
              err |-> "", ret |-> handleCount']
  /\ sqlLoaded' = TRUE
  /\ UNCHANGED <<guidCount, now, tasks, requests>>

DoGetOrCreateTag(max, Names) ==
  \E name \in Names :
    Finish(max, GetOrCreateTag(Start, name), "getOrCreateTag", 0, "", name)

DoSetQuestionTags(max, Keys, Lists) ==
  \E k \in Keys, names \in Lists :
    Finish(max, SetQuestionTags(Start, k[1], k[2], names), "setQuestionTags", k[1], k[2], names)

DoAddQuestionTag(max, Keys, Names) ==
  \E k \in Keys, name \in Names :
    Finish(max, AddQuestionTag(Start, k[1], k[2], name), "addQuestionTag", k[1], k[2], name)

DoRemoveQuestionTag(Keys, Names) ==
  \E k \in Keys, name \in Names :
    Finish(guidCount, RemoveQuestionTag(Start, k[1], k[2], name), "removeQuestionTag", k[1], k[2], name)

DoDeleteUnusedTags ==
  Finish(guidCount, DeleteUnusedTags(Start), "deleteUnusedTags", 0, "", <<>>)

DoCreateSingleAnswerQuestion(max, Data) ==
  /\ RoomForQuestion
  /\ \E data \in Data :
       Finish(max, CreateSingleAnswerQuestion(Start, data),
              "createSingleAnswerQuestion", guidCount + 1, SA, data)

DoUpdateSingleAnswerQuestion(max, Data) ==
  \E qid \in IdInputs, data \in Data :
    Finish(max, UpdateSingleAnswerQuestion(Start, qid, data),
           "updateSingleAnswerQuestion", qid, SA, data)

DoDeleteSingleAnswerQuestion ==
  \E qid \in IdInputs :
    Finish(guidCount, DeleteSingleAnswerQuestion(Start, qid),
           "deleteSingleAnswerQuestion", qid, SA, <<>>)

DoCreateMultiChoiceQuestion(max, Data) ==
  /\ RoomForQuestion
  /\ \E data \in Data :
       LET c == CreateMultiChoiceQuestion(Start, data)
       IN Finish(max, c, "createMultiChoiceQuestion",
                 IF c.err \in ValidationErrors THEN 0 ELSE guidCount + 1, MC, data)

DoUpdateMultiChoiceQuestion(max, Data) ==
  \E qid \in IdInputs, data \in Data :
    Finish(max, UpdateMultiChoiceQuestion(Start, qid, data),
           "updateMultiChoiceQuestion", qid, MC, data)

DoDeleteMultiChoiceQuestion ==
  \E qid \in IdInputs :
    Finish(guidCount, DeleteMultiChoiceQuestion(Start, qid),
           "deleteMultiChoiceQuestion", qid, MC, <<>>)

\* the caller of a get function keeps the object or null; the settled call
\* carries it next to the id
DoGetSingleAnswerQuestion ==
  \E qid \in IdInputs :
    LET c == GetSingleAnswerQuestion(Start, qid)
    IN Finish(guidCount, [c EXCEPT !.ret = 0], "getSingleAnswerQuestion", qid, SA,
              IF c.err # "" THEN <<>> ELSE <<c.ret>>)

DoGetMultiChoiceQuestion ==
  \E qid \in IdInputs :
    LET c == GetDB(Start)
    IN Finish(guidCount, c, "getMultiChoiceQuestion", qid, MC,
              IF c.err # "" THEN <<>> ELSE <<GetMultiChoiceQuestion(c.db, qid)>>)

DoExecAndSave(Statements) ==
  \E stmt \in Statements :
    Finish(guidCount, ExecAndSave(Start, stmt), "execAndSave",
           stmt.question_id, stmt.question_type, stmt)

DoGetDB ==
  Finish(guidCount, [GetDB(Start) EXCEPT !.ret = handleCount], "getDB", 0, "", <<>>)

\* the caller of query keeps the number of rows it got
DoQuery(Tables) ==
  \E table \in Tables :
    LET c == Query(Start, table)
    IN Finish(guidCount, IF c.err # "" THEN c ELSE [c EXCEPT !.ret = Cardinality(c.ret)],
              "query", 0, "", table)

\* the caller of exportDB keeps the bytes it got
DoExportDB ==
  LET c == ExportDB(Start)
  IN Finish(guidCount, [c EXCEPT !.ret = 0], "exportDB", 0, "",
            IF c.err # "" THEN <<>> ELSE c.ret)

\* an importDB that adds the rows of the image to the tables it finds
DoImportDB_Merges(Images) ==
  \E data \in Images \cup (IF dbOpen THEN {ExportDB(Start).ret} ELSE {}) :
    LET merged == [t \in DOMAIN EmptyDB |-> db[t] \cup data[t]]
    IN
    /\ last = NoCall
    /\ handleCount < MaxHandles
    /\ dbOpen' = TRUE
    /\ db' = merged
    /\ sqliteData' = {merged}
    /\ handleCount' = handleCount + 1
    /\ last' = [op |-> "importDB", qid |-> 0, qtype |-> "", args |-> data,
                err |-> "", ret |-> 0]
    /\ sqlLoaded' = TRUE
    /\ UNCHANGED <<guidCount, now, legacy, initDone, tasks, requests>>

\* importDB(data): a new Database over the bytes becomes the session's
\* database, then saveDB().  The bytes are an image at hand or, when a
\* database is open, what exportDB() returns (importDB(exportDB())).
DoImportDB(Images) ==
  \E data \in Images \cup (IF dbOpen THEN {ExportDB(Start).ret} ELSE {}) :
    /\ last = NoCall
    /\ handleCount < MaxHandles
    /\ dbOpen' = TRUE
    /\ db' = data
    /\ sqliteData' = {data}
    /\ handleCount' = handleCount + 1
    /\ last' = [op |-> "importDB", qid |-> 0, qtype |-> "", args |-> data,
                err |-> "", ret |-> 0]
    /\ sqlLoaded' = TRUE
    /\ UNCHANGED <<guidCount, now, legacy, initDone, tasks, requests>>

\* the page is loaded again: the module's variables start over (db = null),
\* the key-value store and the flat storage stay
Reload ==
  /\ last = NoCall
  /\ dbOpen
  /\ dbOpen' = FALSE
  /\ db' = EmptyDB
  /\ initDone' = FALSE
  /\ sqlLoaded' = FALSE
  /\ UNCHANGED <<sqliteData, guidCount, last, now, legacy, handleCount, tasks, requests>>

\* the awaiting caller resumes: it navigates on success, alerts on an error
HandleResult ==
  /\ last # NoCall
  /\ last.op # "validateOptions"
  /\ last' = NoCall
  /\ UNCHANGED <<dbOpen, db, sqliteData, guidCount, now, legacy, handleCount, initDone,
                 sqlLoaded, tasks, requests>>

(***************************************************************************)
(* Calls that overlap.  A call runs synchronously up to an await; there it  *)
(* is suspended and other calls run.  saveSQLiteData and loadSQLiteData     *)
(* make an IndexedDB request; requests on the one store complete in the     *)
(* order made, and the call resumes when its request completes.  A call     *)
(* that awaits a promise already settled resumes in a microtask, before any *)
(* request completes.                                                       *)
(***************************************************************************)
Slots == 1..MaxTasks

InFlight(t) == tasks[t].pc \notin {"idle", "done"}
AllIdle == \A t \in Slots : tasks[t].pc = "idle"

Waiting(t) == \E k \in 1..Len(requests) : requests[k].task = t
MicrotaskReady(t) == tasks[t].pc = "tag" /\ ~Waiting(t)
Completes(t) ==
  /\ requests # <<>>
  /\ Head(requests).task = t
  /\ \A u \in Slots : ~MicrotaskReady(u)

PutRequest(t, image) == [task |-> t, kind |-> "put", data |-> {image}]
GetRequest(t) == [task |-> t, kind |-> "get", data |-> {}]

\* the slot a new call takes: the first one not used yet
FreeSlot(t) ==
  /\ tasks[t].pc = "idle"
  /\ \A u \in Slots : u < t => tasks[u].pc # "idle"

\* the slots after slot t has moved to rec; a call that starts overlaps the
\* calls in flight
Moved(t, rec) ==
  LET starts == tasks[t].pc = "idle"
      others == {u \in Slots : InFlight(u)}
  IN [u \in Slots |->
        IF u = t THEN (IF starts THEN [rec EXCEPT !.overlap = others] ELSE rec)
        ELSE IF starts /\ u \in others THEN [tasks[u] EXCEPT !.overlap = @ \cup {t}]
        ELSE tasks[u]]

Settled(rec, err, ret) == [rec EXCEPT !.pc = "done", !.err = err, !.ret = ret]

\* a getOrCreateTag that looks the name up in the stored image
GetOrCreateTagSync_ReadsStore(c0, tagName) ==
  LET trimmedName == Trim(tagName)
      c1 == IF trimmedName = <<>> THEN Throw(c0, ErrTagEmpty) ELSE c0
      c2 == GetDB(c1)
      existing == UNION {TagsNamed(image, trimmedName) : image \in c2.idb}
      g == GenerateGUID(c2)
      ins == InsertTag(GetDB(g), g.ret, trimmedName)
  IN
  IF c2.err # "" THEN [c |-> c2, buffer |-> None]
  ELSE IF existing # {}
    THEN [c |-> [c2 EXCEPT !.ret = (CHOOSE x \in existing : TRUE).tag_id],
          buffer |-> None]
  ELSE IF ins.err # "" THEN [c |-> ins, buffer |-> None]
  ELSE [c |-> [ins EXCEPT !.ret = g.ret], buffer |-> Some(ins.db)]

\* getOrCreateTag up to its await: the lookup, and for a new name the INSERT
\* and the db.export() of execAndSave/saveDB, all before the first await
\* (the await of saveSQLiteData); buffer is the image handed to the store
GetOrCreateTagSync(c0, tagName) ==
  LET trimmedName == Trim(tagName)
      c1 == IF trimmedName = <<>> THEN Throw(c0, ErrTagEmpty) ELSE c0
      c2 == GetDB(c1)
      existing == TagsNamed(c2.db, trimmedName)
      g == GenerateGUID(c2)
      ins == InsertTag(GetDB(g), g.ret, trimmedName)
  IN
  IF c2.err # "" THEN [c |-> c2, buffer |-> None]
  ELSE IF existing # {}
    THEN [c |-> [c2 EXCEPT !.ret = (CHOOSE x \in existing : TRUE).tag_id],
          buffer |-> None]
  ELSE IF ins.err # "" THEN [c |-> ins, buffer |-> None]
  ELSE [c |-> [ins EXCEPT !.ret = g.ret], buffer |-> Some(ins.db)]

\* the index of the first name from i on that is not blank (`continue`)
RECURSIVE NextName(_, _)
NextName(names, i) ==
  IF i > Len(names) \/ Trim(names[i]) # <<>> THEN i ELSE NextName(names, i + 1)

\* setQuestionTags from the loop head at index i to its next await: either
\* `await getOrCreateTag(tagName)` or, after the last name, `await saveDB()`
SetQuestionTagsRun(t, rec, c, i, reqs) ==
  LET j == NextName(rec.names, i)
      r == GetOrCreateTagSync(c, rec.names[j])
  IN
  IF j > Len(rec.names)
    THEN [c |-> c, requests |-> Append(reqs, PutRequest(t, c.db)),
          task |-> [rec EXCEPT !.pc = "save", !.i = j]]
  ELSE IF r.c.err # ""
    THEN [c |-> r.c, requests |-> reqs, task |-> Settled(rec, r.c.err, 0)]
  ELSE [c |-> r.c,
        requests |-> IF IsSome(r.buffer)
                       THEN Append(reqs, PutRequest(t, Val(r.buffer))) ELSE reqs,
        task |-> [rec EXCEPT !.pc = "tag", !.i = j, !.tagId = r.c.ret]]

\* what a step of call t leaves: the tables and identifiers of c, the slots
\* and the requests; the store takes the image of a completed put
TaskStep(max, t, c, rec, reqs, store) ==
  /\ c.guid <= max
  /\ db' = c.db
  /\ guidCount' = c.guid
  /\ tasks' = Moved(t, rec)
  /\ requests' = reqs
  /\ sqliteData' = store
  /\ UNCHANGED <<dbOpen, last, now, legacy, handleCount, initDone, sqlLoaded>>

\* setQuestionTags is called: getDB, the DELETE, and the loop up to its await
StartSetQuestionTags(max, Keys, Lists) ==
  \E t \in Slots, key \in Keys, names \in Lists :
    LET rec == [IdleTask EXCEPT !.op = "setQuestionTags", !.qid = key[1],
                                !.qtype = key[2], !.names = names]
        c1 == GetDB(Start)
        run == SetQuestionTagsRun(t, rec, DeleteQuestionTagsOf(c1, key[1], key[2]),
                                  1, requests)
    IN /\ last = NoCall
       /\ FreeSlot(t)
       /\ IF c1.err # ""
            THEN TaskStep(max, t, c1, Settled(rec, c1.err, 0), requests, sqliteData)
            ELSE TaskStep(max, t, run.c, run.task, run.requests, sqliteData)

\* setQuestionTags resumes after `await getOrCreateTag`: the INSERT INTO
\* question_tags, then the loop up to its next await
ResumeSetQuestionTags(max) ==
  \E t \in Slots :
    LET rec == tasks[t]
        put == Completes(t)
        reqs == IF put THEN Tail(requests) ELSE requests
        store == IF put THEN Head(requests).data ELSE sqliteData
        a == InsertQuestionTag(Start, rec.qid, rec.qtype, rec.tagId, FALSE)
        run == SetQuestionTagsRun(t, rec, a, rec.i + 1, reqs)
    IN /\ rec.op = "setQuestionTags"
       /\ rec.pc = "tag"
       /\ MicrotaskReady(t) \/ Completes(t)
       /\ IF a.err # ""
            THEN TaskStep(max, t, a, Settled(rec, a.err, 0), reqs, store)
            ELSE TaskStep(max, t, run.c, run.task, run.requests, store)

\* the put of the closing saveDB completes and setQuestionTags returns
FinishSetQuestionTags ==
  \E t \in Slots :
    /\ tasks[t].op = "setQuestionTags"
    /\ tasks[t].pc = "save"
    /\ Completes(t)
    /\ TaskStep(guidCount, t, Start, Settled(tasks[t], "", 0), Tail(requests),
                Head(requests).data)

\* getOrCreateTag is called: it returns at once for a name that exists, else
\* it is suspended in execAndSave
StartGetOrCreateTag(max, Names) ==
  \E t \in Slots, name \in Names :
    LET rec == [IdleTask EXCEPT !.op = "getOrCreateTag", !.names = <<name>>]
        r == GetOrCreateTagSync(Start, name)
    IN /\ last = NoCall
       /\ FreeSlot(t)
       /\ IF r.c.err # ""
            THEN TaskStep(max, t, r.c, Settled(rec, r.c.err, 0), requests, sqliteData)
          ELSE IF IsSome(r.buffer)
            THEN TaskStep(max, t, r.c, [rec EXCEPT !.pc = "create", !.tagId = r.c.ret],
                          Append(requests, PutRequest(t, Val(r.buffer))), sqliteData)
          ELSE TaskStep(max, t, r.c, Settled(rec, "", r.c.ret), requests, sqliteData)

\* the put of execAndSave completes and getOrCreateTag returns the new id
FinishGetOrCreateTag ==
  \E t \in Slots :
    /\ tasks[t].op = "getOrCreateTag"
    /\ tasks[t].pc = "create"
    /\ Completes(t)
    /\ TaskStep(guidCount, t, Start, Settled(tasks[t], "", tasks[t].tagId),
                Tail(requests), Head(requests).data)

ErrPutFailed == "IndexedDB put failed"

\* what a step of an initSQLite call leaves; opened is the image the call
\* builds its Database from, if it gets that far in this step
InitStep(t, rec, reqs, store, item, engine, opened) ==
  /\ tasks' = Moved(t, rec)
  /\ requests' = reqs
  /\ sqliteData' = store
  /\ legacy' = item
  /\ sqlLoaded' = engine
  /\ IF IsSome(opened)
       THEN /\ db' = Val(opened)
            /\ dbOpen' = TRUE
            /\ initDone' = TRUE
            /\ handleCount' = handleCount + 1
       ELSE UNCHANGED <<db, dbOpen, initDone, handleCount>>
  /\ UNCHANGED <<guidCount, last, now>>

\* initSQLite from localStorage.getItem(LEGACY_DB_KEY) to its next await:
\* await saveSQLiteData(buffer) with the item, await loadSQLiteData() without
InitSQLiteRun(t, rec, reqs) ==
  IF legacy # None
    THEN [task |-> [rec EXCEPT !.pc = "migrate"],
          requests |-> Append(reqs, PutRequest(t, Atob(Val(legacy))))]
    ELSE [task |-> [rec EXCEPT !.pc = "load"],
          requests |-> Append(reqs, GetRequest(t))]

\* initSQLite is called: it returns the handle there is, or goes on to load
\* the engine, or (engine loaded) to the migration and the load
StartInitSQLite ==
  \E t \in Slots :
    LET rec == [IdleTask EXCEPT !.op = "initSQLite"]
        run == InitSQLiteRun(t, rec, requests)
    IN /\ last = NoCall
       /\ FreeSlot(t)
       /\ IF dbOpen
            THEN InitStep(t, Settled(rec, "", handleCount), requests, sqliteData,
                          legacy, sqlLoaded, None)
          ELSE IF ~sqlLoaded
            THEN InitStep(t, [rec EXCEPT !.pc = "engine"], requests, sqliteData,
                          legacy, sqlLoaded, None)
          ELSE InitStep(t, run.task, run.requests, sqliteData, legacy, TRUE, None)

\* await initSqlJs(...) settles and the call assigns SQL
EngineLoaded ==
  \E t \in Slots :
    LET run == InitSQLiteRun(t, tasks[t], requests)
    IN /\ tasks[t].pc = "engine"
       /\ InitStep(t, run.task, run.requests, sqliteData, legacy, TRUE, None)

\* an initSQLite that removes the legacy item before the put has settled
LegacyAfterPut_RemovedFirst(ok) == None

\* the legacy item after await saveSQLiteData(buffer): removeItem runs when
\* the put succeeded; when it failed the await throws before removeItem
LegacyAfterPut(ok) == IF ok THEN None ELSE legacy

\* the put of the migration settles: on success the item is removed and the
\* call goes on to loadSQLiteData, on failure initSQLite rejects
ResumeMigrate ==
  \E t \in Slots, ok \in BOOLEAN :
    /\ tasks[t].pc = "migrate"
    /\ Completes(t)
    /\ IF ok
         THEN InitStep(t, [tasks[t] EXCEPT !.pc = "load"],
                       Append(Tail(requests), GetRequest(t)), Head(requests).data,
                       LegacyAfterPut(TRUE), sqlLoaded, None)
         ELSE InitStep(t, Settled(tasks[t], ErrPutFailed, 0), Tail(requests),
                       sqliteData, LegacyAfterPut(FALSE), sqlLoaded, None)

\* loadSQLiteData settles: db = new SQL.Database(savedDB), or a new database
\* with the schema when the store holds no image; the call returns db
ResumeLoad ==
  \E t \in Slots :
    /\ tasks[t].pc = "load"
    /\ Completes(t)
    /\ handleCount < MaxHandles
    /\ InitStep(t, Settled(tasks[t], "", handleCount + 1), Tail(requests), sqliteData,
                legacy, sqlLoaded,
                Some(IF sqliteData # {} THEN CHOOSE image \in sqliteData : TRUE
                     ELSE EmptyDB))

\* a page session that has just started, over empty storage
NewSession ==
  /\ dbOpen = FALSE
  /\ db = EmptyDB
  /\ guidCount = 0
  /\ now = 0
  /\ handleCount = 0
  /\ initDone = FALSE
  /\ sqlLoaded = FALSE
  /\ tasks = [t \in 1..MaxTasks |-> IdleTask]
  /\ requests = <<>>

Init ==
  /\ NewSession
  /\ sqliteData = {}
  /\ legacy = None
  /\ last = NoCall

(***************************************************************************)
(* Spec: every exported function of the storage core, on a few inputs each *)
(***************************************************************************)
Next ==
  \/ InitSQLite
  \/ DoGetOrCreateTag(MaxGuids, FewTagNames)
  \/ DoSetQuestionTags(MaxGuids, KeyInputs, FewTagLists)
  \/ DoAddQuestionTag(MaxGuids, KeyInputs, FewTagNames)
  \/ DoRemoveQuestionTag(KeyInputs, FewTagNames)
  \/ DoDeleteUnusedTags
  \/ DoCreateSingleAnswerQuestion(MaxGuids, SingleAnswerCreateData)
  \/ DoUpdateSingleAnswerQuestion(MaxGuids, SingleAnswerUpdateData)
  \/ DoDeleteSingleAnswerQuestion
  \/ DoCreateMultiChoiceQuestion(MaxGuids, FewMultiChoiceData)
  \/ DoUpdateMultiChoiceQuestion(MaxGuids, FewMultiChoiceData)
  \/ DoDeleteMultiChoiceQuestion
  \/ HandleResult

Spec == Init /\ [][Next]_vars

(***************************************************************************)
(* SpecMultiChoice: the multi-choice module on every option list up to     *)
(* MaxOptions                                                              *)
(***************************************************************************)
NextMultiChoice ==
  \/ InitSQLite
  \/ DoCreateMultiChoiceQuestion(MaxMultiChoiceGuids, MultiChoiceData)
  \/ DoUpdateMultiChoiceQuestion(MaxMultiChoiceGuids, MultiChoiceData)
  \/ DoDeleteMultiChoiceQuestion
  \/ HandleResult

SpecMultiChoice == Init /\ [][NextMultiChoice]_vars

(***************************************************************************)
(* SpecTags: the tag subsystem on every name list up to MaxTagNames, with  *)
(* single-answer questions to tag                                          *)
(***************************************************************************)
NextTags ==
  \/ InitSQLite
  \/ DoGetOrCreateTag(MaxGuids, TagNameInputs)
  \/ DoSetQuestionTags(MaxGuids, KnownKeys, TagLists)
  \/ DoAddQuestionTag(MaxGuids, KnownKeys, TagNameInputs)
  \/ DoRemoveQuestionTag(KnownKeys, TagNameInputs)
  \/ DoDeleteUnusedTags
  \/ DoCreateSingleAnswerQuestion(MaxGuids, PlainSingleAnswerData)
  \/ HandleResult

SpecTags == Init /\ [][NextTags]_vars

(***************************************************************************)
(* SpecRetag: multi-choice questions with tags, updated with, with empty   *)
(* and without data.tags                                                   *)
(***************************************************************************)
NextRetag ==
  \/ InitSQLite
  \/ DoCreateMultiChoiceQuestion(MaxRetagGuids, TaggedMultiChoiceData)
  \/ DoUpdateMultiChoiceQuestion(MaxRetagGuids, RetagMultiChoiceData)
  \/ HandleResult

SpecRetag == Init /\ [][NextRetag]_vars

(***************************************************************************)
(* SpecTagOverlap: a question is created, then up to MaxTasks calls of      *)
(* setQuestionTags and getOrCreateTag run with their awaits interleaved     *)
(***************************************************************************)
OverlapKeys == {<<1, SA>>}
OverlapTagLists == {<<A>>, <<B>>, <<A, B>>}
OverlapTagNames == {A, <<"a", SP>>}

NextTagOverlap ==
  \/ AllIdle /\ InitSQLite
  \/ AllIdle /\ db.questions = {}
             /\ DoCreateSingleAnswerQuestion(MaxGuids, PlainSingleAnswerData)
  \/ AllIdle /\ HandleResult
  \/ StartSetQuestionTags(MaxGuids, OverlapKeys, OverlapTagLists)
  \/ ResumeSetQuestionTags(MaxGuids)
  \/ FinishSetQuestionTags
  \/ StartGetOrCreateTag(MaxGuids, OverlapTagNames)
  \/ FinishGetOrCreateTag

SpecTagOverlap == Init /\ [][NextTagOverlap]_vars

(***************************************************************************)
(* SpecRead: questions of both types created and deleted, and read back by *)
(* id                                                                      *)
(***************************************************************************)
NextRead ==
  \/ InitSQLite
  \/ DoCreateSingleAnswerQuestion(MaxGuids, PlainSingleAnswerData)
  \/ DoCreateMultiChoiceQuestion(MaxGuids, TaggedMultiChoiceData)
  \/ DoDeleteSingleAnswerQuestion
  \/ DoDeleteMultiChoiceQuestion
  \/ DoGetSingleAnswerQuestion
  \/ DoGetMultiChoiceQuestion
  \/ HandleResult

SpecRead == Init /\ [][NextRead]_vars

(***************************************************************************)
(* SpecSession: the session manager over page loads, with or without a     *)
(* legacy item and a stored image at the first load                        *)
(***************************************************************************)
InitSession ==
  /\ NewSession
  /\ sqliteData \in {{}, {BackupImage}}
  /\ legacy \in {None, Some(Base64(LegacyImage))}
  /\ last = NoCall

NextSession ==
  \/ InitSQLite
  \/ DoGetDB
  \/ DoQuery(SessionTables)
  \/ DoExecAndSave(SessionStatements)
  \/ DoSetQuestionTags(MaxGuids, SessionKeys, SessionTagLists)
  \/ DoExportDB
  \/ DoImportDB({BackupImage})
  \/ Reload
  \/ HandleResult

SpecSession == InitSession /\ [][NextSession]_vars

(***************************************************************************)
(* SpecInitOverlap: up to MaxTasks calls of initSQLite and getOrCreateTag   *)
(* with their awaits interleaved, over a store and a legacy item that may   *)
(* hold an image; the put of the migration may fail                         *)
(***************************************************************************)
NextInitOverlap ==
  \/ StartInitSQLite
  \/ EngineLoaded
  \/ ResumeMigrate
  \/ ResumeLoad
  \/ StartGetOrCreateTag(MaxGuids, FewTagNames)
  \/ FinishGetOrCreateTag

SpecInitOverlap == InitSession /\ [][NextInitOverlap]_vars

(***************************************************************************)
(* SpecSchema: rows inserted into the type tables through execAndSave      *)
(***************************************************************************)
NextSchema ==
  \/ InitSQLite
  \/ DoExecAndSave(InsertStatements)
  \/ HandleResult

SpecSchema == Init /\ [][NextSchema]_vars

(***************************************************************************)
(* SpecSingleAnswer: one single-answer question under every partial update, *)
(* with a clock that advances                                              *)
(***************************************************************************)
\* Date.now() is later at a later call
Tick ==
  /\ last = NoCall
  /\ now < MaxClock
  /\ now' = now + 1
  /\ UNCHANGED <<dbOpen, db, sqliteData, guidCount, last, legacy, handleCount, initDone,
                 sqlLoaded, tasks, requests>>

NextSingleAnswer ==
  \/ InitSQLite
  \/ Tick
  \/ (db.questions = {} /\ DoCreateSingleAnswerQuestion(MaxGuids, SingleAnswerCreateData))
  \/ DoUpdateSingleAnswerQuestion(MaxGuids, SingleAnswerPartials)
  \/ HandleResult

SpecSingleAnswer == Init /\ [][NextSingleAnswer]_vars

(***************************************************************************)
(* SpecValidate: validateOptions alone, applied to every option list up to *)
(* MaxOptions over two texts                                               *)
(***************************************************************************)
ValidateInputs ==
  [options : SeqsUpTo([optionText : OptionTexts, isCorrect : BOOLEAN], MaxOptions),
   allowMultiple : BOOLEAN]

InitValidate ==
  /\ NewSession
  /\ sqliteData = {}
  /\ legacy = None
  /\ \E in \in ValidateInputs :
       last = [op |-> "validateOptions", qid |-> 0, qtype |-> "", args |-> in,
               err |-> "pending", ret |-> 0]

ApplyValidateOptions ==
  /\ last.op = "validateOptions"
  /\ last.err = "pending"
  /\ last' = [last EXCEPT !.err = ValidateOptions(last.args.options, last.args.allowMultiple)]
  /\ UNCHANGED <<dbOpen, db, sqliteData, guidCount, now, legacy, handleCount, initDone,
                 sqlLoaded, tasks, requests>>

SpecValidate == InitValidate /\ [][ApplyValidateOptions]_vars

(***************************************************************************)
(* Properties                                                              *)
(***************************************************************************)
CreateMC == "createMultiChoiceQuestion"
UpdateMC == "updateMultiChoiceQuestion"

HasKey(r, qid, qtype) == r.question_id = qid /\ r.question_type = qtype

\* C1: a createMultiChoiceQuestion / updateMultiChoiceQuestion call whose
\* option list validateOptions rejects fails with the validation error and
\* leaves the in-memory tables and the stored image exactly as they were.
C1_RejectedBeforeAnyWrite ==
  [][ (/\ last'.op \in {CreateMC, UpdateMC}
       /\ ValidateOptions(last'.args.options,
                          OrFalse(last'.args.allowMultipleSelection)) # "")
      => (/\ last'.err \in ValidationErrors
          /\ db' = db
          /\ sqliteData' = sqliteData) ]_vars

\* a rejected update of a stored question
C1_Witness ==
  /\ last.op = UpdateMC
  /\ last.err \in ValidationErrors
  /\ HasQuestion(db, last.qid, MC)
  /\ OptionsOf(db, last.qid) # {}

\* C2: validateOptions rejects exactly when the list has fewer than 2
\* options, or no option is correct, or allowMultiple is false and the number
\* of correct options is not 1; every other input is accepted.
C2_ValidateOptionsRejectsExactly ==
  (last.op = "validateOptions" /\ last.err # "pending") =>
     LET options == last.args.options
         nCorrect == Cardinality({i \in DOMAIN options : options[i].isCorrect})
     IN (last.err # "") <=>
          \/ Len(options) < 2
          \/ nCorrect = 0
          \/ (~last.args.allowMultiple /\ nCorrect # 1)

\* two correct options of two are rejected in single-selection mode
C2_Witness ==
  /\ last.op = "validateOptions"
  /\ last.err = ErrSingleSel
  /\ Len(last.args.options) = 2
  /\ \A i \in 1..2 : last.args.options[i].isCorrect
  /\ ~last.args.allowMultiple

\* C3: every multi-choice question in the database has at least 2 option
\* rows, at least 1 correct one and, when allow_multiple_selection is 0,
\* exactly 1 correct one.
C3_OptionInvariant ==
  \A q \in db.questions :
    q.question_type = MC =>
      LET opts == OptionsOf(db, q.question_id)
          correct == {o \in opts : o.is_correct = 1}
      IN /\ Cardinality(opts) >= 2
         /\ Cardinality(correct) >= 1
         /\ \A b \in db.multi_choice_questions :
              (HasKey(b, q.question_id, MC) /\ b.allow_multiple_selection = 0)
                => Cardinality(correct) = 1

\* a single-selection question whose options an update has replaced
C3_Witness ==
  /\ last.op = UpdateMC
  /\ last.err = ""
  /\ HasQuestion(db, last.qid, MC)
  /\ \E b \in db.multi_choice_questions :
       HasKey(b, last.qid, MC) /\ b.allow_multiple_selection = 0

\* C4: deleting a question removes its core row, every row of its
\* body/config/option tables and every question_tags row with its key, and
\* no row of any other question.
C4_DeleteRemovesEveryRowOfTheQuestion ==
  [][ (/\ last'.op \in {"deleteSingleAnswerQuestion", "deleteMultiChoiceQuestion"}
       /\ last'.err = "")
      => LET qid == last'.qid
             qtype == last'.qtype
             gone(T) == \A r \in T : ~HasKey(r, qid, qtype)
             others(T) == {r \in T : ~HasKey(r, qid, qtype)}
         IN /\ gone(db'.questions)
            /\ gone(db'.question_tags)
            /\ gone(db'.single_answer_questions)
            /\ gone(db'.single_answer_config)
            /\ gone(db'.multi_choice_questions)
            /\ gone(db'.multi_choice_options)
            /\ others(db'.questions) = others(db.questions)
            /\ others(db'.question_tags) = others(db.question_tags)
            /\ others(db'.single_answer_questions) = others(db.single_answer_questions)
            /\ others(db'.single_answer_config) = others(db.single_answer_config)
            /\ others(db'.multi_choice_questions) = others(db.multi_choice_questions)
            /\ others(db'.multi_choice_options) = others(db.multi_choice_options)
            /\ db'.tags = db.tags ]_vars

\* C5: after a successful updateMultiChoiceQuestion of a stored question its
\* option rows are the options of data.options (texts, flags, count), none
\* carries an identifier of a previous option row of the question, and no
\* previous option row is left.
C5_UpdateReplacesOptions ==
  [][ (/\ last'.op = UpdateMC
       /\ last'.err = ""
       /\ HasQuestion(db, last'.qid, MC))
      => LET old == OptionsOf(db, last'.qid)
             new == OptionsOf(db', last'.qid)
             options == last'.args.options
         IN /\ Cardinality(new) = Len(options)
            /\ \A text \in OptionTexts, bit \in {0, 1} :
                 Cardinality({o \in new : o.option_text = text /\ o.is_correct = bit})
                   = Cardinality({i \in DOMAIN options :
                                    /\ options[i].optionText = text
                                    /\ Bit(options[i].isCorrect) = bit})
            /\ {o.option_id : o \in new} \cap {o.option_id : o \in old} = {}
            /\ old \cap db'.multi_choice_options = {} ]_vars

\* an update of a stored question to two options has succeeded
C5_Witness ==
  /\ last.op = UpdateMC
  /\ last.err = ""
  /\ HasQuestion(db, last.qid, MC)
  /\ Len(last.args.options) = 2
  /\ Cardinality(OptionsOf(db, last.qid)) = 2

\* C6: after a successful create or update with n options the stored options
\* have display_order 0..n-1, the option of input position i having
\* display_order i, and getMultiChoiceQuestion returns them in input order.
C6_DisplayOrderIsInputOrder ==
  (/\ last.op \in {CreateMC, UpdateMC}
   /\ last.err = ""
   /\ HasQuestion(db, last.qid, MC))
  => LET options == last.args.options
         n == Len(options)
         stored == OptionsOf(db, last.qid)
         got == GetMultiChoiceQuestion(db, last.qid)
     IN /\ Cardinality(stored) = n
        /\ {o.display_order : o \in stored} = 0..(n - 1)
        /\ \A i \in 1..n :
             \E o \in stored : /\ o.display_order = i - 1
                               /\ o.option_text = options[i].optionText
                               /\ o.is_correct = Bit(options[i].isCorrect)
        /\ got # <<>>
        /\ Len(got[1].options) = n
        /\ \A i \in 1..n :
             /\ got[1].options[i].optionText = options[i].optionText
             /\ got[1].options[i].isCorrect = options[i].isCorrect
             /\ got[1].options[i].displayOrder = i - 1

\* three options created with the correct one last and differing texts
C6_Witness ==
  /\ last.op = CreateMC
  /\ last.err = ""
  /\ Len(last.args.options) = 3
  /\ ~last.args.options[1].isCorrect
  /\ last.args.options[3].isCorrect
  /\ last.args.options[1].optionText # last.args.options[3].optionText
  /\ GetMultiChoiceQuestion(db, last.ret) # <<>>

NonBlankNames(names) == {Trim(names[i]) : i \in DOMAIN names} \ {<<>>}

AssociationsOf(d, qid, qtype) == {r \in d.question_tags : HasKey(r, qid, qtype)}

\* C7: a successful setQuestionTags(id, type, names) leaves the question
\* associated with exactly the tags named by the trimmed non-blank entries of
\* names (none for an empty list), and deletes no tag row.
C7_SetQuestionTagsReplaces ==
  [][ (last'.op = "setQuestionTags" /\ last'.err = "")
      => LET wanted == NonBlankNames(last'.args)
             rows == AssociationsOf(db', last'.qid, last'.qtype)
         IN /\ {t.tag_name : t \in GetQuestionTags(db', last'.qid, last'.qtype)} = wanted
            /\ Cardinality(rows) = Cardinality(wanted)
            /\ \A r \in rows : \E t \in db'.tags : t.tag_id = r.tag_id
            /\ db.tags \subseteq db'.tags ]_vars

\* a two-entry list with a blank entry and an entry that trimming changes
C7_Witness ==
  /\ last.op = "setQuestionTags"
  /\ last.err = ""
  /\ HasQuestion(db, last.qid, last.qtype)
  /\ Len(last.args) = 2
  /\ \E i, j \in 1..2 : /\ Trim(last.args[i]) = <<>>
                        /\ Trim(last.args[j]) # <<>>
                        /\ Trim(last.args[j]) # last.args[j]

\* C8: setQuestionTags with a name that occurs twice (after trimming)
\* succeeds and leaves one association between the question and that tag.
C8_DuplicateNamesCollapse ==
  (/\ last.op = "setQuestionTags"
   /\ dbOpen
   /\ \E i, j \in DOMAIN last.args :
        i < j /\ Trim(last.args[i]) = Trim(last.args[j]) /\ Trim(last.args[i]) # <<>>)
  => /\ last.err = ""
     /\ \A n \in NonBlankNames(last.args) :
          Cardinality({r \in AssociationsOf(db, last.qid, last.qtype) :
                         \E t \in TagsNamed(db, n) : t.tag_id = r.tag_id}) = 1

\* C9: getOrCreateTag on a non-blank name succeeds and returns the identifier
\* of the one tag row with the trimmed name; when that row existed before the
\* call it is returned and no row is added; no two tag rows share a name.
C9_GetOrCreateTagIdempotent ==
  /\ [][ (last'.op = "getOrCreateTag" /\ dbOpen /\ Trim(last'.args) # <<>>)
         => LET name == Trim(last'.args)
            IN /\ last'.err = ""
               /\ Cardinality(TagsNamed(db', name)) = 1
               /\ \A t \in TagsNamed(db', name) : last'.ret = t.tag_id
               /\ TagsNamed(db, name) # {} => db'.tags = db.tags ]_vars
  /\ [](\A t, u \in db.tags : t.tag_name = u.tag_name => t = u)

\* a call that found the tag made by an earlier call, under a name that
\* trimming changes
C9_Witness ==
  /\ last.op = "getOrCreateTag"
  /\ last.err = ""
  /\ Trim(last.args) # last.args
  /\ last.ret < guidCount
  /\ \E t \in db.tags : t.tag_id = last.ret /\ t.tag_name = Trim(last.args)

\* C10: only deleteUnusedTags removes tag rows.
C10_OnlyPruneDeletesTags ==
  [][ last'.op # "deleteUnusedTags" => db.tags \subseteq db'.tags ]_vars

\* a tag left without any association by removeQuestionTag
C10_Witness ==
  /\ last.op = "removeQuestionTag"
  /\ last.err = ""
  /\ \E t \in db.tags :
       /\ t.tag_name = last.args
       /\ \A r \in db.question_tags : r.tag_id # t.tag_id

\* the tags that at least one existing question is associated with
TagsInUse(d) ==
  {t \in d.tags :
     \E r \in d.question_tags :
        r.tag_id = t.tag_id /\ HasQuestion(d, r.question_id, r.question_type)}

\* C11: deleteUnusedTags deletes every tag that no existing question is
\* associated with and no tag that an existing question is associated with
\* (so a tag whose only user has been deleted is removed).
C11_PruneDeletesExactlyUnusedTags ==
  [][ (last'.op = "deleteUnusedTags" /\ last'.err = "")
        => db'.tags = TagsInUse(db) ]_vars

\* C12: updateSingleAnswerQuestion(id, partial) leaves difficulty, question
\* text, correct answer, both flags and the tag set unchanged when their key
\* is absent from the partial, writes the keys that are present, and a call
\* that returns sets updated_at to the time of the call, the empty partial
\* included.
C12_PartialUpdateChangesOnlyNamedFields ==
  [][ last'.op = "updateSingleAnswerQuestion" =>
        LET qid == last'.qid
            data == last'.args
            core(d) == {q \in d.questions : HasKey(q, qid, SA)}
            body(d) == {r \in d.single_answer_questions : HasKey(r, qid, SA)}
            config(d) == {r \in d.single_answer_config : HasKey(r, qid, SA)}
        IN
        /\ {q.created_at : q \in core(db')} = {q.created_at : q \in core(db)}
        /\ data.difficulty = None =>
              {q.difficulty : q \in core(db')} = {q.difficulty : q \in core(db)}
        /\ data.questionText = None => body(db') = body(db)
        /\ data.correctAnswer = None =>
              {r.correct_answer : r \in config(db')} = {r.correct_answer : r \in config(db)}
        /\ data.caseSensitive = None =>
              {r.case_sensitive : r \in config(db')} = {r.case_sensitive : r \in config(db)}
        /\ data.allowPartialMatch = None =>
              {r.allow_partial_match : r \in config(db')}
                 = {r.allow_partial_match : r \in config(db)}
        /\ data.tags = None => AssociationsOf(db', qid, SA) = AssociationsOf(db, qid, SA)
        /\ last'.err = "" =>
              /\ \A q \in core(db') :
                    /\ q.updated_at = now
                    /\ IsSome(data.difficulty) => q.difficulty = BindNumber(Val(data.difficulty))
              /\ \A r \in body(db') :
                    IsSome(data.questionText) => r.question_text = Val(data.questionText)
              /\ \A r \in config(db') :
                    /\ IsSome(data.correctAnswer) => r.correct_answer = Val(data.correctAnswer)
                    /\ IsSome(data.caseSensitive) => r.case_sensitive = Bit(Val(data.caseSensitive))
                    /\ IsSome(data.allowPartialMatch)
                         => r.allow_partial_match = Bit(Val(data.allowPartialMatch)) ]_vars

\* an empty partial on a stored question, later than its creation, that kept a
\* flag and a tag set by earlier calls
C12_Witness ==
  /\ last.op = "updateSingleAnswerQuestion"
  /\ last.err = ""
  /\ last.args = EmptyPartial
  /\ \E q \in db.questions :
       /\ HasKey(q, last.qid, SA)
       /\ q.updated_at = now
       /\ q.updated_at > q.created_at
  /\ \E r \in db.single_answer_config : HasKey(r, last.qid, SA) /\ r.case_sensitive = 1
  /\ AssociationsOf(db, last.qid, SA) # {}

\* C13: after updateMultiChoiceQuestion the question's tags are exactly those
\* named by data.tags; with data.tags empty or omitted the question has no
\* tag association, whatever it had before.
C13_UpdateAlwaysReplacesTags ==
  [][ (last'.op = UpdateMC /\ last'.err = "") =>
        LET qid == last'.qid
            tags == last'.args.tags
            names == IF IsSome(tags) THEN Val(tags) ELSE <<>>
        IN /\ {t.tag_name : t \in GetQuestionTags(db', qid, MC)} = NonBlankNames(names)
           /\ Cardinality(AssociationsOf(db', qid, MC)) = Cardinality(NonBlankNames(names))
           /\ names = <<>> => AssociationsOf(db', qid, MC) = {} ]_vars

\* an update without data.tags of a stored question, after which a tag row is
\* left that no association names
C13_Witness ==
  /\ last.op = UpdateMC
  /\ last.err = ""
  /\ last.args.tags = None
  /\ HasQuestion(db, last.qid, MC)
  /\ AssociationsOf(db, last.qid, MC) = {}
  /\ \E t \in db.tags : \A r \in db.question_tags : r.tag_id # t.tag_id

\* the rows that belong to one question type
RowsOfType(d, qtype) ==
  [ core |-> {q \in d.questions : q.question_type = qtype},
    tagged |-> {r \in d.question_tags : r.question_type = qtype},
    body |-> IF qtype = SA THEN d.single_answer_questions ELSE d.multi_choice_questions,
    detail |-> IF qtype = SA THEN d.single_answer_config ELSE d.multi_choice_options ]

SingleAnswerOps ==
  {"createSingleAnswerQuestion", "updateSingleAnswerQuestion", "deleteSingleAnswerQuestion"}
MultiChoiceOps ==
  {"createMultiChoiceQuestion", "updateMultiChoiceQuestion", "deleteMultiChoiceQuestion"}

\* C14: for any id, the single-answer operations leave every multi-choice
\* core, body, option and tag-association row unchanged, and the multi-choice
\* operations leave every single-answer row unchanged.
C14_TypeModulesAreIsolated ==
  [][ /\ last'.op \in SingleAnswerOps => RowsOfType(db', MC) = RowsOfType(db, MC)
      /\ last'.op \in MultiChoiceOps => RowsOfType(db', SA) = RowsOfType(db, SA) ]_vars

\* a single-answer update, with tags, under the id of a stored multi-choice
\* question
C14_Witness ==
  /\ last.op = "updateSingleAnswerQuestion"
  /\ last.err = ""
  /\ HasQuestion(db, last.qid, MC)
  /\ AssociationsOf(db, last.qid, SA) # {}
  /\ AssociationsOf(db, last.qid, MC) # {}

\* C15: an insert into single_answer_questions or single_answer_config with
\* question_type # 'single_answer', or into multi_choice_questions or
\* multi_choice_options with question_type # 'multi_choice', fails and adds
\* no row; no type table ever holds a row of another type code.
C15_TypeTablesRejectOtherTypes ==
  /\ [][ (/\ last'.op = "execAndSave"
          /\ last'.args.question_type # TypeCodeOf(last'.args.table))
            => (last'.err # "" /\ db' = db) ]_vars
  /\ [](/\ \A r \in db.single_answer_questions \cup db.single_answer_config :
              r.question_type = SA
         /\ \A m \in db.multi_choice_questions \cup db.multi_choice_options :
              m.question_type = MC)

\* an option row of type 'single_answer' was refused while the database holds
\* an option row of the same id and the right type
C15_Witness ==
  /\ last.op = "execAndSave"
  /\ last.err = ErrCheck
  /\ last.args.table = "multi_choice_options"
  /\ last.args.question_type = SA
  /\ db.multi_choice_options # {}
  /\ db.single_answer_questions # {}

\* C16: in every reachable state every row of the questions table has a
\* difficulty between 1 and 5 (a supplied difficulty outside 1..5 is never
\* stored, an unspecified difficulty on create is stored as 1).
C16_DifficultyAlwaysInRange ==
  \A q \in db.questions :
    /\ q.difficulty # None
    /\ Val(q.difficulty) \in 1..5

\* the functions that need the database, and their not-initialized errors
GuardedOps == {"getDB", "query", "execAndSave", "exportDB"}
NotInitializedErrors == {ErrNotInit, ErrNoDatabase}

\* C17 as stated: before an initSQLite call has completed in the session,
\* getDB, query, execAndSave and exportDB fail with a not-initialized error.
C17_FailBeforeInitSQLiteCompleted ==
  [][ (~initDone /\ last'.op \in GuardedOps)
        => last'.err \in NotInitializedErrors ]_vars

\* C17, amended: while the session holds no database (neither initSQLite nor
\* importDB has completed), getDB, query, execAndSave and exportDB fail with a
\* not-initialized error and change nothing; none returns a result.
C17_FailWhileNoDatabase ==
  [][ (~dbOpen /\ last'.op \in GuardedOps)
        => (/\ last'.err \in NotInitializedErrors
            /\ db' = db
            /\ sqliteData' = sqliteData) ]_vars

\* a query failed in a session without a database although the store holds an
\* image
C17_Witness ==
  /\ last.op = "query"
  /\ last.err = ErrNotInit
  /\ ~dbOpen
  /\ sqliteData # {}

C19_LegacyMigrationIsOneTime ==
  /\ [][ (legacy # None /\ last'.op = "initSQLite")
          => (/\ sqliteData' = {Atob(Val(legacy))}
              /\ legacy' = None
              /\ db' = Atob(Val(legacy))) ]_vars
  /\ [][ legacy = None => legacy' = None ]_vars

C21_GetReturnsNullWhenAbsent ==
  [][ (/\ dbOpen
       /\ last'.op \in {"getSingleAnswerQuestion", "getMultiChoiceQuestion"}
       /\ ~HasQuestion(db, last'.qid, last'.qtype))
        => (/\ last'.err = ""
            /\ last'.args = <<None>>
            /\ db' = db) ]_vars

\* getSingleAnswerQuestion returned null for the id of a stored multi-choice
\* question
C21_Witness ==
  /\ last.op = "getSingleAnswerQuestion"
  /\ last.err = ""
  /\ last.args = <<None>>
  /\ HasQuestion(db, last.qid, MC)
  /\ GetMultiChoiceQuestion(db, last.qid) # <<>>

\* the mutating functions of the tag module and the question modules
MutatingOps ==
  {"getOrCreateTag", "setQuestionTags", "addQuestionTag", "removeQuestionTag",
   "deleteUnusedTags"} \cup SingleAnswerOps \cup MultiChoiceOps

\* C22: whenever a mutating function of the tag or question modules returns
\* successfully (no other call in flight), the image in the key-value store
\* equals the live database.
C22_SuccessfulMutationLeavesStoreCurrent ==
  [][ (last'.op \in MutatingOps /\ last'.err = "") => sqliteData' = {db'} ]_vars

\* the multi-statement sequences: a question's create or update, setQuestionTags
SequenceOps ==
  {"createSingleAnswerQuestion", "updateSingleAnswerQuestion",
   "createMultiChoiceQuestion", "updateMultiChoiceQuestion", "setQuestionTags"}

\* C23: when a statement of a multi-statement sequence throws after earlier
\* writes of the sequence (they stay applied in the live database), none of
\* them has been written to the key-value store: the stored image is the one
\* from before the call.
C23_FailedSequenceLeavesStoreUntouched ==
  [][ (last'.op \in SequenceOps /\ last'.err # "" /\ db' # db)
        => sqliteData' = sqliteData ]_vars

\* C24: createMultiChoiceQuestion persists first after the core row, the body
\* row and every option row are inserted and before any tag is set, only
\* once when no tags are given, and no image it puts in the store holds the
\* new question with fewer option rows than data.options.
C24_CreatePersistsWholeQuestionOnce ==
  [][ (last'.op = "createMultiChoiceQuestion" /\ last'.err \notin ValidationErrors)
        => LET c == CreateMultiChoiceQuestion(Start, last'.args)
               qid == last'.qid
               n == Len(last'.args.options)
               whole(image) ==
                 /\ HasQuestion(image, qid, MC)
                 /\ HasRow(image.multi_choice_questions, qid, MC)
                 /\ Cardinality(OptionsOf(image, qid)) = n
           IN /\ c.db = db'
              /\ c.idb = sqliteData'
              /\ \A i \in 1..Len(c.puts) :
                    \/ whole(c.puts[i])
                    \/ /\ ~HasQuestion(c.puts[i], qid, MC)
                       /\ OptionsOf(c.puts[i], qid) = {}
              /\ last'.err = ""
                   => /\ Len(c.puts) >= 1
                      /\ whole(c.puts[1])
                      /\ AssociationsOf(c.puts[1], qid, MC) = {}
                      /\ (last'.args.tags = None \/ last'.args.tags = Some(<<>>))
                           => Len(c.puts) = 1 ]_vars

\* a question with three options and a tag was created: the stored image
\* holds the three option rows and the tag association
C24_Witness ==
  /\ last.op = "createMultiChoiceQuestion"
  /\ last.err = ""
  /\ Len(last.args.options) = 3
  /\ \E image \in sqliteData :
        /\ Cardinality(OptionsOf(image, last.qid)) = 3
        /\ AssociationsOf(image, last.qid, MC) # {}

\* C25: updateSingleAnswerQuestion and updateMultiChoiceQuestion called with
\* an id that has no question of the module's type create nothing: after the
\* call no multi_choice_options row and no question_tags row carries that id.
C25_UpdateOfMissingQuestionCreatesNothing ==
  [][ (/\ last'.op \in {"updateSingleAnswerQuestion", "updateMultiChoiceQuestion"}
       /\ ~HasQuestion(db, last'.qid, last'.qtype))
        => (/\ {o \in db'.multi_choice_options : o.question_id = last'.qid} = {}
            /\ {r \in db'.question_tags : r.question_id = last'.qid} = {}) ]_vars

\* every core row of the image has its body row, and a single-answer core row
\* its config row too
CoreRowsHaveBodies(image) ==
  \A q \in image.questions :
    /\ q.question_type = SA =>
          /\ HasRow(image.single_answer_questions, q.question_id, SA)
          /\ HasRow(image.single_answer_config, q.question_id, SA)
    /\ q.question_type = MC =>
          HasRow(image.multi_choice_questions, q.question_id, MC)

OverlappedPair(t, u, op) ==
  /\ t < u
  /\ tasks[t].op = op /\ tasks[u].op = op
  /\ tasks[t].pc = "done" /\ tasks[u].pc = "done"
  /\ u \in tasks[t].overlap
  /\ \A v \in Slots \ {t, u} :
        \/ tasks[v].pc = "idle"
        \/ v < t /\ tasks[v].pc = "done" /\ tasks[v].overlap \cap {t, u} = {}

\* C27: when two setQuestionTags calls for the same question overlap, both
\* complete without error and the question ends with the tag set of one of
\* the two requests.
C27_OverlappingSetQuestionTagsSerialize ==
  \A t, u \in Slots :
    (/\ OverlappedPair(t, u, "setQuestionTags")
     /\ tasks[t].qid = tasks[u].qid /\ tasks[t].qtype = tasks[u].qtype
     /\ dbOpen)
    => /\ tasks[t].err = "" /\ tasks[u].err = ""
       /\ {x.tag_name : x \in GetQuestionTags(db, tasks[t].qid, tasks[t].qtype)}
            \in {NonBlankNames(tasks[t].names), NonBlankNames(tasks[u].names)}

\* C29: when getOrCreateTag calls for the same (trimmed) name overlap, one
\* tag row with that name exists afterwards, no call fails, and the calls
\* return the same identifier.
C29_OverlappingGetOrCreateTagShareOneRow ==
  \A t, u \in Slots :
    (/\ tasks[t].op = "getOrCreateTag" /\ tasks[u].op = "getOrCreateTag"
     /\ tasks[t].pc = "done" /\ tasks[u].pc = "done"
     /\ Trim(tasks[t].names[1]) = Trim(tasks[u].names[1])
     /\ dbOpen)
    => /\ tasks[t].err = "" /\ tasks[u].err = ""
       /\ tasks[t].ret = tasks[u].ret
       /\ Cardinality(TagsNamed(db, Trim(tasks[t].names[1]))) = 1
       /\ \A x \in TagsNamed(db, Trim(tasks[t].names[1])) : x.tag_id = tasks[t].ret

\* two calls for a name that did not exist overlapped: the second started
\* while the first was suspended in its save, under a different spelling
C29_Witness ==
  \E t, u \in Slots :
    /\ OverlappedPair(t, u, "getOrCreateTag")
    /\ tasks[t].names # tasks[u].names
    /\ Trim(tasks[t].names[1]) = Trim(tasks[u].names[1])
    /\ tasks[t].err = "" /\ tasks[t].ret > 0
    /\ \E image \in sqliteData : TagsNamed(image, Trim(tasks[t].names[1])) # {}

\* a write made through the handle of a call is in the database: the tag a
\* successful getOrCreateTag returned is a row of the live database
WritesKept ==
  \A t \in Slots :
    (tasks[t].op = "getOrCreateTag" /\ tasks[t].pc = "done" /\ tasks[t].err = "")
    => \E x \in db.tags : x.tag_id = tasks[t].ret

\* C28: when two initSQLite calls overlap, one database instance is created
\* and both callers receive the same handle, so no write made through the
\* first handle is lost.
C28_OverlappingInitSQLiteShareOneHandle ==
  /\ \A t, u \in Slots :
        (/\ tasks[t].op = "initSQLite" /\ tasks[u].op = "initSQLite"
         /\ tasks[t].pc = "done" /\ tasks[u].pc = "done"
         /\ tasks[t].err = "" /\ tasks[u].err = ""
         /\ u \in tasks[t].overlap)
        => tasks[t].ret = tasks[u].ret
  /\ WritesKept

\* C30: the legacy item is removed only in the step in which the put of its
\* image succeeds; when the put fails the call fails, the item stays, no
\* handle is set and nothing is stored; a call that gets past the engine with
\* the item present puts the item's image again.
C30_LegacyKeyOutlivesFailedWrite ==
  [][ /\ (legacy # None /\ legacy' = None) => sqliteData' = {Atob(Val(legacy))}
      /\ \A t \in Slots :
            /\ (tasks[t].pc = "migrate" /\ tasks'[t].pc = "done")
                 => /\ tasks'[t].err # ""
                    /\ legacy' = legacy
                    /\ dbOpen' = dbOpen /\ db' = db /\ handleCount' = handleCount
                    /\ sqliteData' = sqliteData
            /\ (tasks[t].pc = "migrate" /\ tasks'[t].pc = "load") => legacy' = None
            /\ (/\ tasks'[t].op = "initSQLite"
                /\ tasks[t].pc \in {"idle", "engine"}
                /\ tasks'[t].pc \notin {"idle", "engine"}
                /\ legacy # None
                /\ tasks[t].pc = "idle" => ~dbOpen)
                 => /\ tasks'[t].pc = "migrate"
                    /\ requests' = Append(requests, PutRequest(t, Atob(Val(legacy)))) ]_vars

\* a call failed at the put with the item left in place and no handle set,
\* and a later call, started after the failure, is migrating the item again
C30_Witness ==
  \E t, u \in Slots :
    /\ tasks[t].op = "initSQLite" /\ tasks[t].pc = "done"
    /\ tasks[t].err = ErrPutFailed
    /\ tasks[t].overlap = {}
    /\ tasks[u].op = "initSQLite" /\ tasks[u].pc = "migrate"
    /\ legacy # None
    /\ ~dbOpen

====
